---- MODULE Spec2Model ----
(***************************************************************************)
(* FlowLens API service: event notification & reconciliation pipeline.    *)
(*                                                                         *)
(* The service runs on one asyncio event loop: a coroutine runs alone      *)
(* until it reaches an await that really suspends (a database call, a      *)
(* sleep, a socket send).  `running` names the coroutine that holds the    *)
(* loop (0: the loop is idle and any ready coroutine may be resumed).      *)
(***************************************************************************)
EXTENDS Integers, Sequences, FiniteSets, TLC

(* ------------------------------ bounds -------------------------------- *)
\* concurrent triggers of the event processor (listener handlers, poller)
NumTasks == 2
\* process calls that may fail enrichment for one pull request (Spec)
MaxFailures == 1
\* the wall clock stops advancing here
MaxTime == 300
\* a RetryState entry is not pushed beyond this count by further triggers
\* (SpecRetry)
MaxAttempts == 6
\* websockets that may connect to /ws (SpecBroadcast)
NumSockets == 3
\* rows the ingestion pipeline writes (SpecPoller)
MaxRows == 3

(* ------------------------- program constants -------------------------- *)
\* event_processor.py:290  max_retries: int = 3
DefaultMaxRetries == 3
\* event_processor.py:493  max_retries=1 in the retry sweep
SweepMaxRetries == 1
\* event_processor.py:475  attempts >= 5 : give up
RetryCap == 5
\* event_processor.py:490  attempts >= 3 : heuristic path
FallbackFrom == 3
\* event_processor.py:482  time_since_last < 300
Cooldown == 300
\* granularity of the modelled clock (seconds per Tick)
TickStep == 300
\* websocket_manager.py:60  broadcast_pr_state_update(self, repo_id, pr_number)
BroadcastParams == 2
\* event_processor.py:87,97,102,132  broadcast_pr_state_update(repo_id, pr_number, event_state)
BroadcastArgs == 3
\* event_processor.py:402  total_changes > 200
HighLines == 200
\* event_processor.py:402  changed_files > 10
HighFiles == 10
\* event_processor.py:404  total_changes > 50
MediumLines == 50
\* event_processor.py:404  changed_files > 3
MediumFiles == 3
\* event_poller.py:43  limit=5
PollLimit == 5

VARIABLES
    running,                \* coroutine holding the event loop, 0 when idle
    now,                    \* datetime.now(), seconds
    PROCESSING_EVENTS,      \* event_processor.py:13
    FAILED_INSIGHTS_RETRY,  \* event_processor.py:16 (dict, insertion ordered)
    insights,               \* rows of the "insights" table
    tk,                     \* per coroutine: position and locals
    sw,                     \* locals of process_failed_insight_retries
    handed,                 \* state deltas handed to the Broadcast Fan-out
    log,                    \* log events the claims refer to
    last,                   \* how the most recent process call ended
    active_connections,     \* websocket_manager.py:13 (list of sockets)
    ws,                     \* per websocket: position of its /ws endpoint
    bc,                     \* per broadcast_json call: position and locals
    tables,                 \* rows of each entity table, in updated_at order
    last_timestamp,         \* event_poller.py:31-33, per entity table
    poller,                 \* position and locals of poll_for_events
    pipeline_record,        \* argument of _determine_pipeline_event_state
    event_state,            \* its result
    pr_record,              \* argument of _determine_pr_event_state
    pr_event_state,         \* its result
    files_changed,          \* files_changed of the record in the retry loop
    sent,                   \* the files_changed of each get_ai_insights call
    metadata,               \* additions, deletions, changed_files of a record
    risk_level,             \* risk_level of its heuristic insight
    payload,                \* argument of _serialize_for_json
    message,                \* what json.dumps makes of its result
    listener_running,       \* db_listener.py:8 (_running)
    listener,               \* position and connection of the listener task
    poller_running,         \* event_poller.py:8 (_running)
    restart                 \* whether the service was started a second time

procVars == <<running, now, PROCESSING_EVENTS, FAILED_INSIGHTS_RETRY,
              insights, tk, sw, handed, log, last>>

wsVars == <<active_connections, ws, bc>>

pollVars == <<tables, last_timestamp, poller>>

deriveVars ==
    <<pipeline_record, event_state, pr_record, pr_event_state, files_changed,
      sent, metadata, risk_level, payload, message>>

lifeVars == <<listener_running, listener, poller_running, restart>>

vars == <<procVars, wsVars, pollVars, deriveVars, lifeVars>>

(* ------------------------------ records ------------------------------- *)
Tasks == 1..NumTasks
Sweep == NumTasks + 1
Coroutines == Tasks \cup {Sweep}
\* pull requests (repo_id, pr_number) known to the store
PRKeys == {1, 2}

RiskLevels == {"low", "medium", "high"}

\* A row of pull_requests as the dispatcher hands it to process_new_pull_request.
\* files: len(files_changed); lines: additions + deletions; wellformed: FALSE
\* when a field the heuristic reads holds None (title, additions, deletions).
PullRequestRecord(k, f, l, c, w) ==
    [kind |-> "pr", id |-> <<"pr", k>>, pr |-> k, files |-> f,
     lines |-> l, changed_files |-> c, wellformed |-> w]

PipelineRunRecord(k) ==
    [kind |-> "pipeline", id |-> <<"pipeline", k>>, pr |-> k, files |-> 0,
     lines |-> 0, changed_files |-> 0, wellformed |-> TRUE]

InsightRecord(k) ==
    [kind |-> "insight", id |-> <<"insight", k>>, pr |-> k, files |-> 0,
     lines |-> 0, changed_files |-> 0, wellformed |-> TRUE]

\* The versions of each pull request the ingestion pipeline may have written.
PRInputs ==
    {PullRequestRecord(k, 2, 250, 12, TRUE) : k \in PRKeys}
      \cup {PullRequestRecord(k, 0, 60, 2, TRUE) : k \in PRKeys}
      \cup {PullRequestRecord(k, 0, 60, 2, FALSE) : k \in PRKeys}

RecordInputs ==
    PRInputs \cup {PipelineRunRecord(k) : k \in PRKeys}
             \cup {InsightRecord(k) : k \in PRKeys}

\* The pull requests of SpecRetry: one with file-change data, one without and
\* with fields the heuristic cannot read.
RetryInputs ==
    {PullRequestRecord(1, 2, 250, 12, TRUE), PullRequestRecord(2, 0, 60, 2, FALSE)}

NoRecord == PipelineRunRecord(0)


IdleTask ==
    [pc |-> "idle", rec |-> NoRecord, attempt |-> 0, max_retries |-> 0,
     ai_json |-> "None", success |-> FALSE, raising |-> FALSE,
     sleep |-> 0]

(* ------------------------------ storage ------------------------------- *)
\* db_helpers.select("insights", where={repo_id, pr_number}, limit=1)
HasInsight(k) == \E row \in insights : row.pr = k

\* a variant of InsertInsight in which the insert returns without a row
InsertNothing(k, risk) == insights

\* db_helpers.insert("insights", insight_record)
InsertInsight(k, risk) ==
    insights \cup {[pr |-> k, n |-> Cardinality({x \in insights : x.pr = k}) + 1,
                    risk_level |-> risk]}

(* --------------------------- RetryState map --------------------------- *)
RetryKeys == {FAILED_INSIGHTS_RETRY[i].key : i \in DOMAIN FAILED_INSIGHTS_RETRY}

RetryIndex(k) ==
    CHOOSE i \in DOMAIN FAILED_INSIGHTS_RETRY : FAILED_INSIGHTS_RETRY[i].key = k

RetryAttempts(k) ==
    IF k \in RetryKeys THEN FAILED_INSIGHTS_RETRY[RetryIndex(k)].attempts ELSE 0

\* _schedule_insight_retry: a new key is registered with attempts 0, then the
\* count is incremented, for a new and for a known key alike.
schedule_insight_retry(r) ==
    IF r.pr \notin RetryKeys
    THEN Append(FAILED_INSIGHTS_RETRY,
                [key |-> r.pr, attempts |-> 0 + 1, pr_record |-> r,
                 last_attempt |-> now])
    ELSE [FAILED_INSIGHTS_RETRY EXCEPT ![RetryIndex(r.pr)].attempts = @ + 1]

\* del FAILED_INSIGHTS_RETRY[retry_key] for every completed key
RECURSIVE DeleteKeys(_, _)
DeleteKeys(d, ks) ==
    IF d = <<>> THEN <<>>
    ELSE IF Head(d).key \in ks THEN DeleteKeys(Tail(d), ks)
    ELSE <<Head(d)>> \o DeleteKeys(Tail(d), ks)

SeqRange(s) == {s[i] : i \in DOMAIN s}

(* ------------------------- enrichment engine -------------------------- *)
\* What the AI collaborator answers: text that is no JSON (or a timeout, a
\* quota error), no text at all because the token limit was hit, or a JSON
\* object named here by the value of its risk_level: a known level in another
\* case, an unknown level, null, or "absent" for an object without the key.
CollaboratorResponses ==
    {"malformed", "MAX_TOKENS", "High", "critical", "null", "absent"}

\* str.lower() on the risk values above
Lower(v) == CASE v = "High" -> "high" [] OTHER -> v

\* ai_service.get_ai_insights: None without file-change data or when the
\* response does not parse; a fixed medium insight when the response was cut
\* at the token limit; otherwise the validated insight, named by its
\* risk_level.  It catches every exception of the collaborator.
\* A JSON null has no lower(): the AttributeError is caught and None returned.
RiskOf(resp) == IF resp = "absent" THEN "low" ELSE resp

\* a variant of get_ai_insights without the check of the risk level against
\* the allowed values
get_ai_insights_unchecked(r, resp) ==
    IF r.files = 0 \/ resp \in {"malformed", "null"} THEN "None"
    ELSE IF resp = "MAX_TOKENS" THEN "medium"
    ELSE Lower(RiskOf(resp))

get_ai_insights(r, resp) ==
    IF r.files = 0 \/ resp \in {"malformed", "null"} THEN "None"
    ELSE IF resp = "MAX_TOKENS" THEN "medium"
    ELSE IF Lower(RiskOf(resp)) \in RiskLevels THEN Lower(RiskOf(resp))
    ELSE "low"

\* variant: FallbackRisk with the thresholds included in the higher level
FallbackRiskInclusive(r) ==
    IF r.lines >= HighLines \/ r.changed_files >= HighFiles THEN "high"
    ELSE IF r.lines >= MediumLines \/ r.changed_files >= MediumFiles
         THEN "medium"
    ELSE "low"

\* _generate_fallback_insight: risk level from the change magnitude
FallbackRisk(r) ==
    IF r.lines > HighLines \/ r.changed_files > HighFiles THEN "high"
    ELSE IF r.lines > MediumLines \/ r.changed_files > MediumFiles THEN "medium"
    ELSE "low"

\* where the enrichment engine returns to: the processor or the retry sweep
ReturnPc(t) == IF t = Sweep THEN "sw_after" ELSE "after_enrich"

\* a variant of AfterFailedAttempt in which the failure of the last attempt
\* leaves the engine as an exception
AfterFailedAttemptRaises(c) ==
    IF c.attempt < c.max_retries - 1 THEN "backoff" ELSE "except"

\* an attempt failed (get_ai_insights returned None, or the try block raised):
\* the backoff sleep if an attempt is left, otherwise the loop ends and the
\* engine returns False
AfterFailedAttempt(c) ==
    IF c.attempt < c.max_retries - 1 THEN "backoff" ELSE "return"

\* a variant of BackoffDelay with a constant delay
BackoffDelayConstant(attempt) == 1

\* asyncio.sleep(2 ** attempt): the seconds slept after attempt number
\* "attempt" (counted from 0)
BackoffDelay(attempt) == 2 ^ attempt

\* the task record after a failed attempt; "sleep" is the argument of the
\* asyncio.sleep the coroutine is suspended in
FailedAttempt(t) ==
    LET to == AfterFailedAttempt(tk[t])
    IN  [tk[t] EXCEPT !.pc = IF to = "return" THEN ReturnPc(t) ELSE to,
                      !.success = IF to = "backoff" THEN @ ELSE FALSE,
                      !.sleep = IF to = "backoff"
                                THEN BackoffDelay(tk[t].attempt) ELSE @]

\* for attempt in range(max_retries): one call of the AI collaborator.  The
\* call itself does not suspend (a blocking client call inside a coroutine).
AIAttempt(t) ==
    /\ running = t
    /\ tk[t].pc = "ai_attempt"
    /\ \E resp \in CollaboratorResponses :
         LET out == get_ai_insights(tk[t].rec, resp) IN
         IF out # "None"
         THEN /\ tk' = [tk EXCEPT ![t].pc = "insert", ![t].ai_json = out]
              /\ running' = 0
         ELSE /\ tk' = [tk EXCEPT ![t] = FailedAttempt(t)]
              /\ running' = IF FailedAttempt(t).pc = "backoff" THEN 0 ELSE t
    /\ UNCHANGED <<wsVars, pollVars, deriveVars, lifeVars,
                   now, PROCESSING_EVENTS, FAILED_INSIGHTS_RETRY, insights,
                   sw, handed, log, last>>

\* await db_helpers.insert("insights", ...) returns in the AI path
InsertReturn(t) ==
    /\ running = 0
    /\ tk[t].pc = "insert"
    /\ \/ /\ insights' = InsertInsight(tk[t].rec.pr, tk[t].ai_json)
          /\ tk' = [tk EXCEPT ![t].pc = ReturnPc(t), ![t].success = TRUE]
          /\ running' = t
       \/ /\ UNCHANGED insights       \* DatabaseError: except Exception
          /\ tk' = [tk EXCEPT ![t] = FailedAttempt(t)]
          /\ running' = IF FailedAttempt(t).pc = "backoff" THEN 0 ELSE t
    /\ UNCHANGED <<wsVars, pollVars, deriveVars, lifeVars,
                   now, PROCESSING_EVENTS, FAILED_INSIGHTS_RETRY, sw, handed, log, last>>

\* await asyncio.sleep(2 ** attempt) is over: the next attempt begins
BackoffWake(t) ==
    /\ running = 0
    /\ tk[t].pc = "backoff"
    /\ tk' = [tk EXCEPT ![t].pc = "ai_attempt", ![t].attempt = @ + 1,
                         ![t].sleep = 0]
    /\ running' = t
    /\ UNCHANGED <<wsVars, pollVars, deriveVars, lifeVars,
                   now, PROCESSING_EVENTS, FAILED_INSIGHTS_RETRY, insights,
                   sw, handed, log, last>>

\* _generate_fallback_insight up to its insert; a record whose fields hold
\* None raises inside the try and the function returns False.
Fallback(t) ==
    /\ running = t
    /\ tk[t].pc = "fallback"
    /\ IF tk[t].rec.wellformed
       THEN /\ tk' = [tk EXCEPT ![t].pc = "fb_insert",
                                ![t].ai_json = FallbackRisk(tk[t].rec)]
            /\ running' = 0
       ELSE /\ tk' = [tk EXCEPT ![t].pc = ReturnPc(t), ![t].success = FALSE]
            /\ running' = t
    /\ UNCHANGED <<wsVars, pollVars, deriveVars, lifeVars,
                   now, PROCESSING_EVENTS, FAILED_INSIGHTS_RETRY, insights,
                   sw, handed, log, last>>

\* await db_helpers.insert("insights", ...) returns in the heuristic path
FallbackInsertReturn(t) ==
    /\ running = 0
    /\ tk[t].pc = "fb_insert"
    /\ \/ /\ insights' = InsertInsight(tk[t].rec.pr, tk[t].ai_json)
          /\ tk' = [tk EXCEPT ![t].pc = ReturnPc(t), ![t].success = TRUE]
       \/ /\ UNCHANGED insights       \* DatabaseError: return False
          /\ tk' = [tk EXCEPT ![t].pc = ReturnPc(t), ![t].success = FALSE]
    /\ running' = t
    /\ UNCHANGED <<wsVars, pollVars, deriveVars, lifeVars,
                   now, PROCESSING_EVENTS, FAILED_INSIGHTS_RETRY, sw, handed, log, last>>

(* --------------------------- event processor -------------------------- *)
\* variant: the dedupe check never finds the record id
AlreadyProcessingNever(r) == FALSE

\* if record_id in PROCESSING_EVENTS
AlreadyProcessing(r) == r.id \in PROCESSING_EVENTS

\* variant: the discard at the end of the try block instead of in a finally
ReleaseLockUnlessRaising(t) ==
    IF tk[t].raising THEN PROCESSING_EVENTS
    ELSE PROCESSING_EVENTS \ {tk[t].rec.id}

\* finally: PROCESSING_EVENTS.discard(record_id)
ReleaseLock(t) == PROCESSING_EVENTS \ {tk[t].rec.id}

\* a variant of BodyOf in which an insight record is broadcast as a pipeline
\* record is
BodyOfInsightBroadcasts(kind) ==
    CASE kind = "pr" -> "select"
      [] OTHER -> "broadcast"

\* where the try block of each process function begins: the select of
\* existing insights (pr), the state derivation and broadcast (pipeline),
\* nothing but a log line (insight)
BodyOf(kind) ==
    CASE kind = "pr" -> "select"
      [] kind = "pipeline" -> "broadcast"
      [] OTHER -> "finally"

\* variant: a notification is taken only when no processing is in flight, as
\* if the listener awaited each handler itself
AcceptsWhenIdle(t) == \A u \in Tasks : tk[u].pc = "idle"

\* The handlers are coroutine functions handed to add_listener: each
\* notification runs its handler as a task of its own, and the listener's loop
\* awaits none of them.  Invocations are anonymous: a trigger takes the lowest
\* free slot.
Accepts(t) ==
    /\ tk[t].pc = "idle"
    /\ \A u \in Tasks : u < t => tk[u].pc # "idle"

\* process_new_pull_request / process_new_pipeline / process_new_insight up to
\* the first await: the dedupe check and the lock entry.  A pull-request call
\* suspends at once in `await db_helpers.select("insights", ...)`.
Call(t, r, cap) ==
    /\ running = 0
    /\ Accepts(t)
    /\ r.kind = "pr" => RetryAttempts(r.pr) < cap
    /\ IF AlreadyProcessing(r)
       THEN /\ last' = "skipped"
            /\ UNCHANGED <<running, PROCESSING_EVENTS, tk>>
       ELSE /\ PROCESSING_EVENTS' = PROCESSING_EVENTS \cup {r.id}
            /\ tk' = [tk EXCEPT ![t] =
                        [IdleTask EXCEPT !.rec = r, !.pc = BodyOf(r.kind)]]
            /\ running' = IF r.kind = "pr" THEN 0 ELSE t
            /\ UNCHANGED last
    /\ UNCHANGED <<wsVars, pollVars, deriveVars, lifeVars,
                   now, FAILED_INSIGHTS_RETRY, insights, sw, handed, log>>

\* variant: enrichment attempted whether or not an insight exists
ShouldAttemptAlways(existing) == TRUE

\* should_attempt_insights = not existing_insights
should_attempt_insights(existing) == ~existing

\* the select of existing insights returns, and the record is classified
SelectReturn(t) ==
    /\ running = 0
    /\ tk[t].pc = "select"
    /\ \/ tk' = [tk EXCEPT ![t].pc = "except"]      \* DatabaseError
       \/ LET existing_insights == HasInsight(tk[t].rec.pr) IN
          tk' = [tk EXCEPT ![t].max_retries = DefaultMaxRetries,
                           ![t].pc =
                              IF should_attempt_insights(existing_insights)
                              THEN IF tk[t].rec.files > 0 THEN "ai_attempt"
                                   ELSE "fallback"
                              ELSE "broadcast"]
    /\ running' = t
    /\ UNCHANGED <<wsVars, pollVars, deriveVars, lifeVars,
                   now, PROCESSING_EVENTS, FAILED_INSIGHTS_RETRY, insights,
                   sw, handed, log, last>>

\* if insight_success: broadcast ... else: await _schedule_insight_retry(pr_record)
AfterEnrich(t) ==
    /\ running = t
    /\ tk[t].pc = "after_enrich"
    /\ IF tk[t].success
       THEN /\ tk' = [tk EXCEPT ![t].pc = "broadcast"]
            /\ UNCHANGED FAILED_INSIGHTS_RETRY
       ELSE /\ FAILED_INSIGHTS_RETRY' = schedule_insight_retry(tk[t].rec)
            /\ tk' = [tk EXCEPT ![t].pc = "finally"]
    /\ UNCHANGED <<wsVars, pollVars, deriveVars, lifeVars,
                   running, now, PROCESSING_EVENTS, insights, sw, handed, log, last>>

\* websocket_manager.broadcast_pr_state_update(repo_id, pr_number, event_state):
\* the method takes (repo_id, pr_number), so the call raises TypeError.
BroadcastCall(t) ==
    /\ running = t
    /\ tk[t].pc = "broadcast"
    /\ IF BroadcastArgs # BroadcastParams
       THEN /\ tk' = [tk EXCEPT ![t].pc = "except"]
            /\ UNCHANGED handed
       ELSE /\ tk' = [tk EXCEPT ![t].pc = "finally"]
            /\ handed' = handed \cup {[pr |-> tk[t].rec.pr, by |-> tk[t].rec.id]}
    /\ UNCHANGED <<wsVars, pollVars, deriveVars, lifeVars,
                   running, now, PROCESSING_EVENTS, FAILED_INSIGHTS_RETRY,
                   insights, sw, log, last>>

\* except Exception as e: logger.error(...); raise e
Except(t) ==
    /\ running = t
    /\ tk[t].pc = "except"
    /\ tk' = [tk EXCEPT ![t].pc = "finally", ![t].raising = TRUE]
    /\ UNCHANGED <<wsVars, pollVars, deriveVars, lifeVars,
                   running, now, PROCESSING_EVENTS, FAILED_INSIGHTS_RETRY,
                   insights, sw, handed, log, last>>

\* finally: the lock entry is released and the call ends
Finally(t) ==
    /\ running = t
    /\ tk[t].pc = "finally"
    /\ PROCESSING_EVENTS' = ReleaseLock(t)
    /\ tk' = [tk EXCEPT ![t] = IdleTask]
    /\ last' = IF tk[t].raising THEN "raised" ELSE "returned"
    /\ running' = 0
    /\ UNCHANGED <<wsVars, pollVars, deriveVars, lifeVars,
                   now, FAILED_INSIGHTS_RETRY, insights, sw, handed, log>>

(* ----------------------------- retry sweep ---------------------------- *)
IdleSweep == [idx |-> 1, size |-> 0, completed |-> <<>>]

\* variant: the cap tested with > instead of >=
GiveUpAfterCap(e) == e.attempts > RetryCap

\* if retry_data['attempts'] >= 5
GiveUp(e) == e.attempts >= RetryCap

\* variant: no entry is ever within its cooldown
InCooldownNever(e, t) == FALSE

\* time_since_last < 300, at time t
InCooldown(e, t) == t - e.last_attempt < Cooldown

\* variant: every retry of the sweep goes through the AI path
SweepRouteAlwaysAI(e) == "ai_attempt"

\* if retry_data['attempts'] >= 3: the heuristic path, else the AI path
SweepRoute(e) == IF e.attempts >= FallbackFrom THEN "fallback" ELSE "ai_attempt"

\* process_failed_insight_retries: entry, and the dict iterator is created
SweepCall ==
    /\ running = 0
    /\ tk[Sweep].pc = "idle"
    /\ IF FAILED_INSIGHTS_RETRY = <<>>
       THEN /\ tk' = [tk EXCEPT ![Sweep] = IdleTask]
            /\ UNCHANGED <<running, sw>>
       ELSE /\ tk' = [tk EXCEPT ![Sweep] = [IdleTask EXCEPT !.pc = "sw_next"]]
            /\ sw' = [idx |-> 1, size |-> Len(FAILED_INSIGHTS_RETRY),
                      completed |-> <<>>]
            /\ running' = Sweep
    /\ UNCHANGED <<wsVars, pollVars, deriveVars, lifeVars,
                   now, PROCESSING_EVENTS, FAILED_INSIGHTS_RETRY, insights,
                   handed, log, last>>

\* for retry_key, retry_data in FAILED_INSIGHTS_RETRY.items(): one iteration up
\* to the enrichment call.  The iterator raises RuntimeError when the dict
\* changed size since it was created; nothing catches it around the loop.
SweepNext ==
    /\ running = Sweep
    /\ tk[Sweep].pc = "sw_next"
    /\ IF Len(FAILED_INSIGHTS_RETRY) # sw.size
       THEN /\ tk' = [tk EXCEPT ![Sweep] = IdleTask]
            /\ running' = 0
            /\ sw' = IdleSweep
            /\ UNCHANGED log
       ELSE IF sw.idx > Len(FAILED_INSIGHTS_RETRY)
       THEN /\ tk' = [tk EXCEPT ![Sweep].pc = "sw_cleanup"]
            /\ UNCHANGED <<running, sw, log>>
       ELSE LET e == FAILED_INSIGHTS_RETRY[sw.idx] IN
            IF GiveUp(e)
            THEN /\ sw' = [sw EXCEPT !.idx = @ + 1,
                                     !.completed = Append(@, e.key)]
                 /\ log' = log \cup {<<"giving up", e.key>>}
                 /\ UNCHANGED <<running, tk>>
            ELSE IF InCooldown(e, now)
            THEN /\ sw' = [sw EXCEPT !.idx = @ + 1]
                 /\ UNCHANGED <<running, tk, log>>
            ELSE /\ tk' = [tk EXCEPT ![Sweep].rec = e.pr_record,
                              ![Sweep].attempt = 0,
                              ![Sweep].max_retries = SweepMaxRetries,
                              ![Sweep].pc = SweepRoute(e)]
                 /\ UNCHANGED <<running, sw, log>>
    /\ UNCHANGED <<wsVars, pollVars, deriveVars, lifeVars,
                   now, PROCESSING_EVENTS, FAILED_INSIGHTS_RETRY, insights, handed, last>>

\* if success: completed_retries.append(retry_key)
\* else: retry_data['attempts'] += 1; retry_data['last_attempt'] = now()
SweepAfter ==
    /\ running = Sweep
    /\ tk[Sweep].pc = "sw_after"
    /\ LET key == FAILED_INSIGHTS_RETRY[sw.idx].key IN
       IF tk[Sweep].success
       THEN /\ sw' = [sw EXCEPT !.idx = @ + 1, !.completed = Append(@, key)]
            /\ UNCHANGED FAILED_INSIGHTS_RETRY
       ELSE /\ sw' = [sw EXCEPT !.idx = @ + 1]
            /\ FAILED_INSIGHTS_RETRY' =
                 [FAILED_INSIGHTS_RETRY EXCEPT ![sw.idx].attempts = @ + 1,
                                               ![sw.idx].last_attempt = now]
    /\ tk' = [tk EXCEPT ![Sweep].pc = "sw_next"]
    /\ UNCHANGED <<wsVars, pollVars, deriveVars, lifeVars,
                   running, now, PROCESSING_EVENTS, insights, handed, log, last>>

\* for retry_key in completed_retries: del FAILED_INSIGHTS_RETRY[retry_key]
SweepCleanup ==
    /\ running = Sweep
    /\ tk[Sweep].pc = "sw_cleanup"
    /\ FAILED_INSIGHTS_RETRY' =
         DeleteKeys(FAILED_INSIGHTS_RETRY, SeqRange(sw.completed))
    /\ tk' = [tk EXCEPT ![Sweep] = IdleTask]
    /\ sw' = IdleSweep
    /\ running' = 0
    /\ UNCHANGED <<wsVars, pollVars, deriveVars, lifeVars,
                   now, PROCESSING_EVENTS, insights, handed, log, last>>

\* time passes while the loop is idle
Tick ==
    /\ running = 0
    /\ now + TickStep <= MaxTime
    /\ now' = now + TickStep
    /\ UNCHANGED <<wsVars, pollVars, deriveVars, lifeVars,
                   running, PROCESSING_EVENTS, FAILED_INSIGHTS_RETRY, insights,
                   tk, sw, handed, log, last>>

(* --------------------------- broadcast fan-out ------------------------ *)
Sockets == 1..NumSockets

\* broadcast_json calls in flight.  What a second one does to the list while
\* the first is suspended is to remove sockets, as ClientDisconnect does.
Broadcasters == {1}

\* deepest nesting of a payload
MaxDepth == 2

\* a value of a payload before serialization: a string, a number, a UUID or a
\* datetime
Leaves ==
    {[type |-> t, items |-> <<>>] : t \in {"str", "int", "uuid", "datetime"}}

\* a dict or a list holding one value, alone or behind a string
Containers(values) ==
    {[type |-> t, items |-> i] :
        t \in {"dict", "list"},
        i \in {<<v>> : v \in values}
                \cup {<<[type |-> "str", items |-> <<>>], v>> : v \in values}}

RECURSIVE Values(_)
\* the values nested at most d deep
Values(d) ==
    IF d = 0 THEN Leaves ELSE Leaves \cup Containers(Values(d - 1))

\* the payloads handed to broadcast_json
PayloadKinds == Values(MaxDepth)

RECURSIVE serialize_for_json(_)
\* _serialize_for_json: dicts and lists are rebuilt from their serialized
\* values, a UUID becomes a string, any other value is kept
serialize_for_json(data) ==
    IF data.type \in {"dict", "list"}
    THEN [data EXCEPT !.items =
            [i \in DOMAIN data.items |-> serialize_for_json(data.items[i])]]
    ELSE IF data.type = "uuid" THEN [data EXCEPT !.type = "str"]
    ELSE data

RECURSIVE JsonNative(_)
\* what json.dumps can serialize: strings and numbers, and dicts and lists of
\* such values
JsonNative(v) ==
    IF v.type \in {"dict", "list"}
    THEN \A i \in DOMAIN v.items : JsonNative(v.items[i])
    ELSE v.type \in {"str", "int"}

\* json.dumps raises TypeError on a value that is no JSON type
JsonDumps(v) == IF JsonNative(v) THEN "message" ELSE "TypeError"

\* list.remove(x): the first occurrence is removed
RECURSIVE ListRemove(_, _)
ListRemove(list, x) ==
    IF list = <<>> THEN <<>>
    ELSE IF Head(list) = x THEN Tail(list)
    ELSE <<Head(list)>> \o ListRemove(Tail(list), x)

\* variant: disconnect leaves the list as it is
DisconnectKeeps(list, websocket) == list

\* a variant of disconnect that drops the oldest connection when the
\* websocket is not in the list
DisconnectOrPop(list, websocket) ==
    IF websocket \in SeqRange(list) THEN ListRemove(list, websocket)
    ELSE IF list = <<>> THEN list ELSE Tail(list)

\* WebSocketManager.disconnect
disconnect(list, websocket) ==
    IF websocket \in SeqRange(list) THEN ListRemove(list, websocket) ELSE list

\* for connection in disconnected: self.disconnect(connection)
RECURSIVE DisconnectAll(_, _)
DisconnectAll(list, disconnected) ==
    IF disconnected = <<>> THEN list
    ELSE DisconnectAll(disconnect(list, Head(disconnected)), Tail(disconnected))

\* variant: the failed connection is removed inside the loop
RemoveAtOnce(list, connection) == disconnect(list, connection)

\* except Exception: disconnected.append(connection) -- the list under
\* iteration is left as it is until the loop is over
OnSendFailure(list, connection) == list

IdleBroadcast ==
    [pc |-> "idle", i |-> 0, cur |-> 0, disconnected |-> <<>>,
     start |-> <<>>, got |-> <<>>, after |-> <<>>,
     mutated |-> FALSE, ended |-> FALSE]

\* another coroutine changed active_connections while b is suspended in a send
MarkMutated(b, changed) ==
    [c \in Broadcasters |->
        IF c # b /\ changed /\ bc[c].pc = "send"
        THEN [bc[c] EXCEPT !.mutated = TRUE] ELSE bc[c]]

\* websocket_endpoint: await websocket_manager.connect(websocket): accept
\* returns and the socket is appended, or accept raises.  Sockets are
\* anonymous: they arrive in order.
Connect(s) ==
    /\ ws[s] = "new"
    /\ \A o \in Sockets : o < s => ws[o] # "new"
    /\ \/ /\ active_connections' = Append(active_connections, s)
          /\ ws' = [ws EXCEPT ![s] = "open"]
          /\ bc' = MarkMutated(0, TRUE)
       \/ /\ ws' = [ws EXCEPT ![s] = "closed"]
          /\ UNCHANGED <<active_connections, bc>>
    /\ UNCHANGED <<procVars, pollVars, deriveVars, lifeVars>>

\* websocket_endpoint: receive_text raises WebSocketDisconnect and the
\* endpoint calls websocket_manager.disconnect(websocket)
ClientDisconnect(s) ==
    /\ ws[s] = "open"
    /\ active_connections' = disconnect(active_connections, s)
    /\ ws' = [ws EXCEPT ![s] = "closed"]
    /\ bc' = MarkMutated(0, active_connections' # active_connections)
    /\ UNCHANGED <<procVars, pollVars, deriveVars, lifeVars>>

\* broadcast_json up to its first await: the empty check, serialization, and
\* the first send of the loop
broadcast_json(b, data) ==
    /\ bc[b].pc = "idle"
    /\ IF active_connections = <<>>
          \/ JsonDumps(serialize_for_json(data)) = "TypeError"
       THEN bc' = [bc EXCEPT ![b] = IdleBroadcast]
       ELSE bc' = [bc EXCEPT ![b] =
                     [IdleBroadcast EXCEPT !.pc = "send", !.i = 1,
                                           !.cur = active_connections[1],
                                           !.start = active_connections]]
    /\ UNCHANGED <<procVars, pollVars, deriveVars, lifeVars, active_connections, ws>>

\* await connection.send_text(message) returns or raises; the list iterator
\* yields the next connection, or the loop ends and the failed connections
\* are disconnected before broadcast_json returns
SendReturn(b) ==
    /\ bc[b].pc = "send"
    /\ \E ok \in BOOLEAN :
         LET list == IF ok THEN active_connections
                     ELSE OnSendFailure(active_connections, bc[b].cur)
             got == IF ok THEN Append(bc[b].got, bc[b].cur) ELSE bc[b].got
             disconnected == IF ok THEN bc[b].disconnected
                             ELSE Append(bc[b].disconnected, bc[b].cur)
         IN  IF bc[b].i + 1 <= Len(list)
             THEN /\ active_connections' = list
                  /\ bc' = [MarkMutated(b, list # active_connections)
                              EXCEPT ![b].i = @ + 1, ![b].cur = list[bc[b].i + 1],
                                     ![b].got = got,
                                     ![b].disconnected = disconnected]
             ELSE /\ active_connections' = DisconnectAll(list, disconnected)
                  /\ bc' = [MarkMutated(b, active_connections' # active_connections)
                              EXCEPT ![b].pc = "idle", ![b].i = 0, ![b].cur = 0,
                                     ![b].got = got,
                                     ![b].disconnected = disconnected,
                                     ![b].after = active_connections',
                                     ![b].ended = TRUE]
    /\ UNCHANGED <<procVars, pollVars, deriveVars, lifeVars, ws>>

InitFanout ==
    /\ active_connections = <<>>
    /\ ws = [s \in Sockets |-> "new"]
    /\ bc = [b \in Broadcasters |-> IdleBroadcast]

(* ----------------------- listener and poller -------------------------- *)
\* the entity tables in the order poll_for_events scans them
KindOrder == <<"pr_event", "pipeline_event", "insight_event">>

Kinds == SeqRange(KindOrder)

\* A table is the sequence of its rows in updated_at (created_at) order: row
\* i was written i-th, and holds what became of its reconciliation:
\*   "settled"     the listener processed it
\*   "failed"      the listener's processing raised (swallowed by the handler)
\*   "handed"      the poller handed it to the processor, which raised
\*   "reconciled"  the poller handed it to the processor, which returned
RowsWritten == Len(tables[KindOrder[1]]) + Len(tables[KindOrder[2]])
                 + Len(tables[KindOrder[3]])

\* process_notification_by_type_and_id(event_type, record_id): load the record;
\* if it is not found return; otherwise route it by kind to the processor,
\* whose exception propagates
process_notification_by_type_and_id(event_type, found) ==
    IF ~found THEN {"returned"}
    ELSE IF event_type \in Kinds THEN {"returned", "raised"}
    ELSE {"returned"}

\* a variant of HandlerExcept in which the exception leaves the handler and
\* ends the connection block as an error of the listener does
HandlerPropagates(l) ==
    [l EXCEPT !.pc = "backoff", !.subs = {}, !.conn = "none"]

\* except Exception in a notification handler: the error is logged, and the
\* listener task and its connection are as they were
HandlerExcept(l) == l

\* db_listener: a row is written, its trigger notifies the channel the
\* listener is subscribed to, and the handler of the channel runs the
\* processor inside try/except
NotificationHandler(kind) ==
    /\ RowsWritten < MaxRows
    /\ kind \in listener.subs
    /\ \E out \in process_notification_by_type_and_id(kind, TRUE) :
         /\ tables' = [tables EXCEPT ![kind] =
                        Append(@, IF out = "returned" THEN "settled"
                                                      ELSE "failed")]
         /\ listener' = IF out = "raised" THEN HandlerExcept(listener)
                                           ELSE listener
    /\ UNCHANGED <<procVars, wsVars, deriveVars, last_timestamp, poller,
                   listener_running, poller_running, restart>>

\* the connection block is left: the connection goes back to the pool, which
\* resets it, and its subscriptions are gone
Released(l) == [l EXCEPT !.subs = {}, !.conn = "none", !.n = 1]

\* a variant of AfterBlock that sleeps the backoff whatever the flag says
AfterBlockSleeps(l) == [Released(l) EXCEPT !.pc = "backoff"]

\* after the connection block: if _running the backoff sleep(5), otherwise
\* the outer while ends
AfterBlock(l) ==
    [Released(l) EXCEPT !.pc = IF listener_running THEN "backoff" ELSE "done"]

\* async with db.connection() yields the connection, or raises an I/O error
ListenerConnect ==
    /\ listener.pc = "connect"
    /\ \/ listener' = [listener EXCEPT !.pc = "subscribe", !.conn = "open",
                                        !.n = 1]
       \/ listener' = AfterBlock(listener)
    /\ UNCHANGED <<procVars, wsVars, pollVars, deriveVars, listener_running,
                   poller_running, restart>>

\* await add_listener(channel, handler) for the next channel returns, or
\* raises on a lost connection; after the third the idle loop is entered
ListenerSubscribe ==
    /\ listener.pc = "subscribe"
    /\ IF listener.conn = "open"
       THEN listener' =
              [listener EXCEPT
                 !.subs = @ \cup {KindOrder[listener.n]},
                 !.n = IF listener.n < Len(KindOrder) THEN @ + 1 ELSE 1,
                 !.pc = IF listener.n < Len(KindOrder) THEN "subscribe"
                        ELSE IF listener_running THEN "idle" ELSE "remove"]
       ELSE listener' = AfterBlock(listener)
    /\ UNCHANGED <<procVars, wsVars, pollVars, deriveVars, listener_running,
                   poller_running, restart>>

\* while _running: await asyncio.sleep(1)
ListenerIdle ==
    /\ listener.pc = "idle"
    /\ listener' = IF listener_running
                   THEN [listener EXCEPT !.beat = 1 - @]
                   ELSE [listener EXCEPT !.pc = "remove", !.n = 1]
    /\ UNCHANGED <<procVars, wsVars, pollVars, deriveVars, listener_running,
                   poller_running, restart>>

\* await remove_listener(channel, handler) for the next channel returns, or
\* raises on a lost connection; after the third the connection block is left
ListenerRemove ==
    /\ listener.pc = "remove"
    /\ IF listener.conn = "open"
       THEN LET l == [listener EXCEPT !.subs = @ \ {KindOrder[listener.n]}]
            IN  listener' = IF listener.n < Len(KindOrder)
                            THEN [l EXCEPT !.n = @ + 1]
                            ELSE AfterBlock(l)
       ELSE listener' = AfterBlock(listener)
    /\ UNCHANGED <<procVars, wsVars, pollVars, deriveVars, listener_running,
                   poller_running, restart>>

\* await asyncio.sleep(5) is over: while _running
ListenerBackoffWake ==
    /\ listener.pc = "backoff"
    /\ listener' = [listener EXCEPT
                      !.pc = IF listener_running THEN "connect" ELSE "done"]
    /\ UNCHANGED <<procVars, wsVars, pollVars, deriveVars, listener_running,
                   poller_running, restart>>

\* the connection the listener holds is lost (I/O error): the server side of
\* its subscriptions is gone and no handler is called any more
ConnectionLost ==
    /\ listener.conn = "open"
    /\ listener' = [listener EXCEPT !.conn = "lost", !.subs = {}]
    /\ UNCHANGED <<procVars, wsVars, pollVars, deriveVars, listener_running,
                   poller_running, restart>>

stop_listener ==
    /\ listener_running
    /\ listener_running' = FALSE
    /\ UNCHANGED <<procVars, wsVars, pollVars, deriveVars, listener,
                   poller_running, restart>>

\* lifespan shutdown: task.cancel() after the stop signal; CancelledError is
\* raised at the task's await, the connection block is left, break
CancelListener ==
    /\ ~listener_running
    /\ listener.pc # "done"
    /\ listener' = [Released(listener) EXCEPT !.pc = "done"]
    /\ UNCHANGED <<procVars, wsVars, pollVars, deriveVars, listener_running,
                   poller_running, restart>>

InitListener ==
    /\ listener_running = TRUE
    /\ listener = [pc |-> "connect", n |-> 1, subs |-> {}, conn |-> "none",
                   beat |-> 0]

\* select(table, order_by=updated_at, desc=True, limit=5): row numbers
Top(kind) ==
    LET n == Len(tables[kind])
        m == IF n < PollLimit THEN n ELSE PollLimit
    IN  [j \in 1..m |-> n - j + 1]

SleepingPoller == [pc |-> "sleep", k |-> 1, rows |-> <<>>, newest |-> 0]

\* the scan goes on with the next table, or the cycle ends in the sleep
NextTable ==
    IF poller.k < Len(KindOrder)
    THEN [pc |-> "select", k |-> poller.k + 1, rows |-> <<>>, newest |-> 0]
    ELSE SleepingPoller

\* what a process call by the poller makes of a row
AfterPoll(status, out) ==
    IF out = "returned"
    THEN IF status \in {"failed", "handed"} THEN "reconciled" ELSE status
    ELSE IF status = "failed" THEN "handed" ELSE status

\* a variant of while_running in which the loop does not read the flag
WhileTrue(flag) == TRUE

\* while _running: the condition of the poller's loop
while_running(flag) == flag

\* await asyncio.sleep(sleep_interval), or the sleep(10) after an error, is
\* over: while _running
PollWake ==
    /\ poller.pc = "sleep"
    /\ poller' = IF while_running(poller_running)
                 THEN [pc |-> "select", k |-> 1, rows |-> <<>>, newest |-> 0]
                 ELSE [SleepingPoller EXCEPT !.pc = "done"]
    /\ UNCHANGED <<procVars, wsVars, deriveVars, lifeVars, tables, last_timestamp>>

stop_poller ==
    /\ poller_running
    /\ ~restart.again
    /\ poller_running' = FALSE
    /\ UNCHANGED <<procVars, wsVars, pollVars, deriveVars, listener_running,
                   listener, restart>>

\* lifespan shutdown: task.cancel() after the stop signal; CancelledError is
\* raised at the poller's await, break
CancelPoller ==
    /\ ~poller_running
    /\ poller.pc # "done"
    /\ poller' = [SleepingPoller EXCEPT !.pc = "done"]
    /\ UNCHANGED <<procVars, wsVars, deriveVars, tables, last_timestamp,
                   lifeVars>>

\* the service is started again, once, after the poller has shut down: the
\* module is imported anew (_running = True) and poll_for_events starts with
\* its timestamps None; restart.rows keeps how many rows each table held
StartAgain ==
    /\ poller.pc = "done"
    /\ ~restart.again
    /\ poller_running' = TRUE
    /\ last_timestamp' = [kind \in Kinds |-> <<>>]
    /\ poller' = [pc |-> "select", k |-> 1, rows |-> <<>>, newest |-> 0]
    /\ restart' = [again |-> TRUE,
                   rows |-> [kind \in Kinds |-> Len(tables[kind])]]
    /\ UNCHANGED <<procVars, wsVars, deriveVars, tables, listener_running,
                   listener>>

\* the select of one table raises DatabaseError: except Exception, sleep(10),
\* and the loop starts over
PollSelectError ==
    /\ poller.pc = "select"
    /\ poller' = SleepingPoller
    /\ UNCHANGED <<procVars, wsVars, deriveVars, lifeVars, tables, last_timestamp>>

\* the select of one table returns: the first non-empty result initializes
\* the timestamp, a later one is filtered by it
PollSelect ==
    /\ poller.pc = "select"
    /\ LET kind == KindOrder[poller.k]
           rows == Top(kind)
           last_ts == last_timestamp[kind]
           Newer(i) == i > last_ts[1]
       IN  IF rows = <<>>
           THEN /\ poller' = NextTable
                /\ UNCHANGED last_timestamp
           ELSE IF last_ts = <<>>
           THEN /\ last_timestamp' = [last_timestamp EXCEPT ![kind] = <<rows[1]>>]
                /\ poller' = NextTable
           ELSE IF SelectSeq(rows, Newer) = <<>>
           THEN /\ last_timestamp' = [last_timestamp EXCEPT ![kind] = <<rows[1]>>]
                /\ poller' = NextTable
           ELSE /\ poller' = [poller EXCEPT !.pc = "process",
                                            !.rows = SelectSeq(rows, Newer),
                                            !.newest = rows[1]]
                /\ UNCHANGED last_timestamp
    /\ UNCHANGED <<procVars, wsVars, deriveVars, lifeVars, tables>>

\* a variant of RowsAfter in which a raise of the process call ends the scan
\* of the table
RowsAfterAbort(rows, out) == IF out = "raised" THEN <<>> ELSE Tail(rows)

\* the rows the for loop still visits once the process call of its current
\* row returned or raised: the raise is caught inside the loop body
RowsAfter(rows, out) == Tail(rows)

\* await process_notification_by_type_and_id(...) for one new row returns or
\* raises (logged); after the last row the timestamp advances
PollProcess ==
    /\ poller.pc = "process"
    /\ LET kind == KindOrder[poller.k]
           row == Head(poller.rows)
       IN  \E out \in process_notification_by_type_and_id(kind, TRUE) :
             /\ tables' = [tables EXCEPT ![kind][row] = AfterPoll(@, out)]
             /\ IF RowsAfter(poller.rows, out) = <<>>
                THEN /\ last_timestamp' =
                          [last_timestamp EXCEPT ![kind] = <<poller.newest>>]
                     /\ poller' = NextTable
                ELSE /\ poller' = [poller EXCEPT
                                     !.rows = RowsAfter(poller.rows, out)]
                     /\ UNCHANGED last_timestamp
    /\ UNCHANGED <<procVars, wsVars, deriveVars, lifeVars>>

InitPoller ==
    /\ tables = [kind \in Kinds |-> <<>>]
    /\ last_timestamp = [kind \in Kinds |-> <<>>]
    /\ poller = [pc |-> "select", k |-> 1, rows |-> <<>>, newest |-> 0]
    /\ poller_running = TRUE
    /\ restart = [again |-> FALSE, rows |-> [kind \in Kinds |-> 0]]

(* ---------------------- pipeline status derivation -------------------- *)
\* values the four status columns may hold: the ones the code names, NULL,
\* a value it does not name, and (status_pr) a missing key
StatusPr == {"pending", "opened", "updated", "None", "absent"}

StatusBuild == {"pending", "building", "buildPassed", "buildFailed", "None"}

StatusApproval == {"pending", "approved", "rejected", "None"}

StatusMerge == {"pending", "merged", "closed", "failed", "None"}

\* dict.get(key, 'pending')
Get(value) == IF value = "absent" THEN "pending" ELSE value

\* variant: _determine_pipeline_event_state with the build outcome tested
\* before the merge and approval status
determine_build_first(r) ==
    LET status_pr == Get(r.status_pr)
        status_build == Get(r.status_build)
        status_approval == Get(r.status_approval)
        status_merge == Get(r.status_merge)
    IN  IF status_build = "buildPassed" THEN "buildPassed"
        ELSE IF status_build = "buildFailed" THEN "buildFailed"
        ELSE IF status_build = "building" THEN "building"
        ELSE IF status_merge = "merged" THEN "merged"
        ELSE IF status_merge = "closed" THEN "closed"
        ELSE IF status_merge = "failed" THEN "mergeFailed"
        ELSE IF status_approval = "approved" THEN "approved"
        ELSE IF status_approval = "rejected" THEN "rejected"
        ELSE IF status_pr = "opened" \/ status_pr = "pending" THEN "opened"
        ELSE "updated"

\* _determine_pipeline_event_state
determine_pipeline_event_state(r) ==
    LET status_pr == Get(r.status_pr)
        status_build == Get(r.status_build)
        status_approval == Get(r.status_approval)
        status_merge == Get(r.status_merge)
    IN  IF status_merge = "merged" THEN "merged"
        ELSE IF status_merge = "closed" THEN "closed"
        ELSE IF status_merge = "failed" THEN "mergeFailed"
        ELSE IF status_approval = "approved" THEN "approved"
        ELSE IF status_approval = "rejected" THEN "rejected"
        ELSE IF status_build = "buildPassed" THEN "buildPassed"
        ELSE IF status_build = "buildFailed" THEN "buildFailed"
        ELSE IF status_build = "building" THEN "building"
        ELSE IF status_pr = "opened" \/ status_pr = "pending" THEN "opened"
        ELSE "updated"

PipelineRecords ==
    [status_pr : StatusPr, status_build : StatusBuild,
     status_approval : StatusApproval, status_merge : StatusMerge]

\* process_new_pipeline: event_state = _determine_pipeline_event_state(...)
DetermineEventState ==
    /\ event_state = "unset"
    /\ event_state' = determine_pipeline_event_state(pipeline_record)
    /\ UNCHANGED <<procVars, wsVars, pollVars, lifeVars, pipeline_record,
                   pr_record, pr_event_state, files_changed, sent, metadata,
                   risk_level, payload, message>>

InitDerive ==
    /\ pipeline_record = [status_pr |-> "pending", status_build |-> "pending",
                          status_approval |-> "pending",
                          status_merge |-> "pending"]
    /\ event_state = "unset"
    /\ pr_record = [state |-> "open", merged |-> FALSE, is_draft |-> FALSE,
                    history |-> [form |-> "absent", entries |-> <<>>]]
    /\ pr_event_state = "unset"
    /\ files_changed = <<>>
    /\ sent = <<>>
    /\ metadata = [additions |-> 0, deletions |-> 0, changed_files |-> 0]
    /\ risk_level = "unset"
    /\ payload = [type |-> "str", items |-> <<>>]
    /\ message = "unset"

(* ------------------------ PR event state derivation -------------------- *)
\* longest history a record carries
MaxHistory == 2

\* the list at event_processor.py:192
WorkflowStates == {"building", "buildPassed", "buildFailed", "approved",
                   "rejected"}

\* states a history entry may carry: the workflow states and two others
HistoryStates == WorkflowStates \cup {"opened", "merged"}

\* the "state" column: the two values the code names, NULL, a missing key
PrStates == {"open", "closed", "None", "absent"}

\* the "history" column as the record carries it: a missing key, a list of
\* entries, or the same list as the JSON text of the column (the form
\* files_changed is parsed from at line 56 and history at routes/api.py:45)
Histories ==
    {[form |-> "absent", entries |-> <<>>]}
      \cup {[form |-> f, entries |-> e] :
              f \in {"list", "json"},
              e \in UNION {[1..n -> HistoryStates] : n \in 0..MaxHistory}}

PrRecords ==
    [state : PrStates, merged : BOOLEAN, is_draft : BOOLEAN,
     history : Histories]

\* variant: _determine_pr_event_state with the flags tested before the
\* history
determine_pr_flags_first(r) ==
    LET state == IF r.state = "absent" THEN "open" ELSE r.state
        history == r.history
        latest_state ==
            IF history.form = "list" /\ history.entries # <<>>
            THEN history.entries[Len(history.entries)] ELSE "None"
    IN  IF r.merged THEN "merged"
        ELSE IF state = "closed" /\ ~r.merged THEN "closed"
        ELSE IF r.is_draft THEN "draft"
        ELSE IF latest_state \in WorkflowStates THEN latest_state
        ELSE IF state = "open" THEN "opened"
        ELSE state

\* _determine_pr_event_state: the history is used only when it is a
\* non-empty list (line 187)
determine_pr_event_state(r) ==
    LET state == IF r.state = "absent" THEN "open" ELSE r.state
        history == r.history
        latest_state ==
            IF history.form = "list" /\ history.entries # <<>>
            THEN history.entries[Len(history.entries)] ELSE "None"
    IN  IF latest_state \in WorkflowStates THEN latest_state
        ELSE IF r.merged THEN "merged"
        ELSE IF state = "closed" /\ ~r.merged THEN "closed"
        ELSE IF r.is_draft THEN "draft"
        ELSE IF state = "open" THEN "opened"
        ELSE state

\* process_new_pull_request: event_state = _determine_pr_event_state(...)
DeterminePrEventState ==
    /\ pr_event_state = "unset"
    /\ pr_event_state' = determine_pr_event_state(pr_record)
    /\ UNCHANGED <<procVars, wsVars, pollVars, lifeVars, pipeline_record,
                   event_state, pr_record, files_changed, sent, metadata,
                   risk_level, payload, message>>

(* ----------------------- progressive payload reduction ----------------- *)
\* most file entries a record carries
MaxFiles == 2

\* event_processor.py:360  if len(patch) > 300
PatchLimit == 300

\* event_processor.py:361  len("... [truncated for retry]")
TruncationMark == 25

\* event_processor.py:364  len("[File modified: +/- changes]")
StatsMark == 28

\* lengths of the patch of a file entry: none, shorter than the text that
\* replaces it, around the limit, and long
PatchLengths == {0, 20, 300, 301, 324, 326, 1000}

LineCounts == {3, 120}

\* len(str(n))
Digits(n) == IF n < 10 THEN 1 ELSE IF n < 100 THEN 2 ELSE 3

\* a file entry: its line counts, the length of its "patch" text and how many
\* characters of that text are diff body
FileEntries ==
    {[additions |-> a, deletions |-> a, patch |-> n, body |-> n] :
        a \in LineCounts, n \in PatchLengths}

FilesChanged == UNION {[1..n -> FileEntries] : n \in 0..MaxFiles}

\* the loop body of _reduce_file_data_for_retry for one file entry
\* (the else branch of line 365 needs attempt > 2, which range(3) never gives)
ReduceFile(f, attempt) ==
    IF attempt = 1
    THEN IF f.patch > PatchLimit
         THEN [f EXCEPT !.patch = PatchLimit + TruncationMark,
                        !.body = PatchLimit]
         ELSE f
    ELSE [f EXCEPT !.patch = StatsMark + Digits(f.additions)
                               + Digits(f.deletions),
                   !.body = 0]

\* _reduce_file_data_for_retry, on the files_changed of the record
reduce_file_data_for_retry(files, attempt) ==
    [i \in DOMAIN files |-> ReduceFile(files[i], attempt)]

\* one pass of the loop of _generate_ai_insight_for_pr_with_retry whose
\* attempt fails: the record is reduced when attempt > 0 and handed to
\* get_ai_insights
FailingAttempt ==
    /\ Len(sent) < DefaultMaxRetries
    /\ LET attempt == Len(sent)
           reduced == IF attempt > 0
                      THEN reduce_file_data_for_retry(files_changed, attempt)
                      ELSE files_changed
       IN  /\ files_changed' = reduced
           /\ sent' = Append(sent, reduced)
    /\ UNCHANGED <<procVars, wsVars, pollVars, lifeVars, pipeline_record,
                   event_state, pr_record, pr_event_state, metadata,
                   risk_level, payload, message>>

(* --------------------- heuristic insight: risk level ------------------- *)
\* additions, deletions and changed_files of a record, around the thresholds
Additions == {0, 25, 50, 51, 100, 200, 201}

Deletions == {0, 1, 25, 100}

ChangedFiles == {0, 3, 4, 10, 11}

Metadata ==
    [additions : Additions, deletions : Deletions,
     changed_files : ChangedFiles]

\* _generate_fallback_insight up to the choice of risk_level
\* (total_changes = additions + deletions)
DetermineRiskLevel ==
    /\ risk_level = "unset"
    /\ risk_level' =
         FallbackRisk([lines |-> metadata.additions + metadata.deletions,
                       changed_files |-> metadata.changed_files])
    /\ UNCHANGED <<procVars, wsVars, pollVars, lifeVars, pipeline_record,
                   event_state, pr_record, pr_event_state, files_changed,
                   sent, metadata, payload, message>>

(* ------------------------ payload serialization ------------------------ *)
\* broadcast_json, lines 30-32: the payload is serialized and dumped
Serialize ==
    /\ message = "unset"
    /\ message' = JsonDumps(serialize_for_json(payload))
    /\ UNCHANGED <<procVars, wsVars, pollVars, lifeVars, pipeline_record,
                   event_state, pr_record, pr_event_state, files_changed,
                   sent, metadata, risk_level, payload>>

(* --------------------------- specification ---------------------------- *)
InitProcessor ==
    /\ running = 0
    /\ now = 0
    /\ PROCESSING_EVENTS = {}
    /\ FAILED_INSIGHTS_RETRY = <<>>
    /\ insights = {}
    /\ tk = [t \in Coroutines |-> IdleTask]
    /\ sw = IdleSweep
    /\ handed = {}
    /\ log = {}
    /\ last = "none"

Init ==
    /\ InitProcessor
    /\ InitFanout
    /\ InitPoller
    /\ InitListener
    /\ InitDerive

Next ==
    \/ \E t \in Tasks, r \in RecordInputs : Call(t, r, MaxFailures)
    \/ \E t \in Tasks : SelectReturn(t)
    \/ \E t \in Tasks : AIAttempt(t)
    \/ \E t \in Tasks : InsertReturn(t)
    \/ \E t \in Tasks : BackoffWake(t)
    \/ \E t \in Tasks : Fallback(t)
    \/ \E t \in Tasks : FallbackInsertReturn(t)
    \/ \E t \in Tasks : AfterEnrich(t)
    \/ \E t \in Tasks : BroadcastCall(t)
    \/ \E t \in Tasks : Except(t)
    \/ \E t \in Tasks : Finally(t)

\* The event processor as the listener and the poller trigger it.  Nothing in
\* the service calls process_failed_insight_retries.
Spec == Init /\ [][Next]_vars

\* The processor together with the retry sweep, called periodically as its
\* docstring asks ("Should be called periodically by the poller").
NextRetry ==
    \/ \E r \in RetryInputs : Call(1, r, MaxAttempts)
    \/ SelectReturn(1)
    \/ \E t \in {1, Sweep} : AIAttempt(t)
    \/ \E t \in {1, Sweep} : InsertReturn(t)
    \/ BackoffWake(1)
    \/ \E t \in {1, Sweep} : Fallback(t)
    \/ \E t \in {1, Sweep} : FallbackInsertReturn(t)
    \/ AfterEnrich(1)
    \/ BroadcastCall(1)
    \/ Except(1)
    \/ Finally(1)
    \/ SweepCall
    \/ SweepNext
    \/ SweepAfter
    \/ SweepCleanup
    \/ Tick

SpecRetry == Init /\ [][NextRetry]_vars

\* The Broadcast Fan-out: websocket endpoints and broadcast_json calls.
NextBroadcast ==
    \/ \E s \in Sockets : Connect(s)
    \/ \E s \in Sockets : ClientDisconnect(s)
    \/ \E b \in Broadcasters, data \in PayloadKinds : broadcast_json(b, data)
    \/ \E b \in Broadcasters : SendReturn(b)

SpecBroadcast == Init /\ [][NextBroadcast]_vars

\* The listener's handlers and the fallback poller.
Listening ==
    \/ ListenerConnect
    \/ ListenerSubscribe
    \/ ListenerIdle
    \/ ListenerBackoffWake
    \/ \E kind \in Kinds : NotificationHandler(kind)

NextPoller ==
    \/ Listening
    \/ PollWake
    \/ PollSelectError
    \/ PollSelect
    \/ PollProcess

\* The poller is a task of the event loop: it is resumed whenever its await
\* is over, and the store does not fail the select of a table forever.
PollerFairness ==
    /\ WF_vars(PollWake)
    /\ WF_vars(PollProcess)
    /\ \A j \in DOMAIN KindOrder : SF_vars(PollSelect /\ poller.k = j)

SpecPoller == Init /\ [][NextPoller]_vars /\ PollerFairness

\* The poller with its stop signal, the cancellation that follows it at
\* shutdown, and one later start of the service.
NextLifecycle ==
    \/ NextPoller
    \/ stop_poller
    \/ CancelPoller
    \/ StartAgain

\* a service that was shut down is started again
SpecLifecycle ==
    Init /\ [][NextLifecycle]_vars /\ PollerFairness /\ WF_vars(StartAgain)

\* The listener task: connection, subscriptions, handlers, loss of the
\* connection, the stop signal and the cancellation that follows it.
NextListener ==
    \/ Listening
    \/ ListenerRemove
    \/ ConnectionLost
    \/ stop_listener
    \/ CancelListener

\* The listener is a task of the event loop: it is resumed whenever its await
\* is over, and the store does not refuse the connection forever.
ListenerFairness ==
    /\ WF_vars(ListenerSubscribe)
    /\ WF_vars(ListenerIdle)
    /\ WF_vars(ListenerRemove)
    /\ WF_vars(ListenerBackoffWake)
    /\ SF_vars(ListenerConnect /\ listener'.conn = "open")
    /\ WF_vars(ListenerConnect)

SpecListener == Init /\ [][NextListener]_vars /\ ListenerFairness

\* _determine_pipeline_event_state applied to every pipeline record.
InitPipelineRecords ==
    /\ InitProcessor
    /\ InitFanout
    /\ InitPoller
    /\ InitListener
    /\ pipeline_record \in PipelineRecords
    /\ event_state = "unset"
    /\ pr_record = [state |-> "open", merged |-> FALSE, is_draft |-> FALSE,
                    history |-> [form |-> "absent", entries |-> <<>>]]
    /\ pr_event_state = "unset"
    /\ files_changed = <<>>
    /\ sent = <<>>
    /\ metadata = [additions |-> 0, deletions |-> 0, changed_files |-> 0]
    /\ risk_level = "unset"
    /\ payload = [type |-> "str", items |-> <<>>]
    /\ message = "unset"

NextDerive == DetermineEventState

SpecDerive == InitPipelineRecords /\ [][NextDerive]_vars

\* _determine_pr_event_state applied to every pull-request record.
InitPrRecords ==
    /\ InitProcessor
    /\ InitFanout
    /\ InitPoller
    /\ InitListener
    /\ pipeline_record = [status_pr |-> "pending", status_build |-> "pending",
                          status_approval |-> "pending",
                          status_merge |-> "pending"]
    /\ event_state = "unset"
    /\ pr_record \in PrRecords
    /\ pr_event_state = "unset"
    /\ files_changed = <<>>
    /\ sent = <<>>
    /\ metadata = [additions |-> 0, deletions |-> 0, changed_files |-> 0]
    /\ risk_level = "unset"
    /\ payload = [type |-> "str", items |-> <<>>]
    /\ message = "unset"

NextDerivePr == DeterminePrEventState

SpecDerivePr == InitPrRecords /\ [][NextDerivePr]_vars

\* the retry loop of the engine on every files_changed, all attempts failing
InitFilesChanged ==
    /\ InitProcessor
    /\ InitFanout
    /\ InitPoller
    /\ InitListener
    /\ pipeline_record = [status_pr |-> "pending", status_build |-> "pending",
                          status_approval |-> "pending",
                          status_merge |-> "pending"]
    /\ event_state = "unset"
    /\ pr_record = [state |-> "open", merged |-> FALSE, is_draft |-> FALSE,
                    history |-> [form |-> "absent", entries |-> <<>>]]
    /\ pr_event_state = "unset"
    /\ files_changed \in FilesChanged
    /\ sent = <<>>
    /\ metadata = [additions |-> 0, deletions |-> 0, changed_files |-> 0]
    /\ risk_level = "unset"
    /\ payload = [type |-> "str", items |-> <<>>]
    /\ message = "unset"

NextReduce == FailingAttempt

SpecReduce == InitFilesChanged /\ [][NextReduce]_vars

\* _generate_fallback_insight on every change magnitude
InitMetadata ==
    /\ InitProcessor
    /\ InitFanout
    /\ InitPoller
    /\ InitListener
    /\ pipeline_record = [status_pr |-> "pending", status_build |-> "pending",
                          status_approval |-> "pending",
                          status_merge |-> "pending"]
    /\ event_state = "unset"
    /\ pr_record = [state |-> "open", merged |-> FALSE, is_draft |-> FALSE,
                    history |-> [form |-> "absent", entries |-> <<>>]]
    /\ pr_event_state = "unset"
    /\ files_changed = <<>>
    /\ sent = <<>>
    /\ metadata \in Metadata
    /\ risk_level = "unset"
    /\ payload = [type |-> "str", items |-> <<>>]
    /\ message = "unset"

NextFallback == DetermineRiskLevel

SpecFallback == InitMetadata /\ [][NextFallback]_vars

\* one step of an invocation of the processor that is under way
ProcessorStep ==
    \E t \in Tasks :
        \/ SelectReturn(t)
        \/ AIAttempt(t)
        \/ InsertReturn(t)
        \/ BackoffWake(t)
        \/ Fallback(t)
        \/ FallbackInsertReturn(t)
        \/ AfterEnrich(t)
        \/ BroadcastCall(t)
        \/ Except(t)
        \/ Finally(t)

\* The service while it runs: the listener and the poller trigger process
\* calls (event_poller.py:54-57, 78-81, 102-105), every call under way is
\* resumed, and time passes.  The poller's cycle (event_poller.py:35-111)
\* holds no call of process_failed_insight_retries, and nothing else does.
NextService ==
    \/ \E t \in Tasks, r \in RecordInputs : Call(t, r, MaxFailures)
    \/ ProcessorStep
    \/ Tick

SpecService ==
    Init /\ [][NextService]_vars /\ WF_vars(ProcessorStep) /\ WF_vars(Tick)

\* the serialization of broadcast_json on every payload
InitPayloads ==
    /\ InitProcessor
    /\ InitFanout
    /\ InitPoller
    /\ InitListener
    /\ pipeline_record = [status_pr |-> "pending", status_build |-> "pending",
                          status_approval |-> "pending",
                          status_merge |-> "pending"]
    /\ event_state = "unset"
    /\ pr_record = [state |-> "open", merged |-> FALSE, is_draft |-> FALSE,
                    history |-> [form |-> "absent", entries |-> <<>>]]
    /\ pr_event_state = "unset"
    /\ files_changed = <<>>
    /\ sent = <<>>
    /\ metadata = [additions |-> 0, deletions |-> 0, changed_files |-> 0]
    /\ risk_level = "unset"
    /\ payload \in PayloadKinds
    /\ message = "unset"

NextSerialize == Serialize

SpecSerialize == InitPayloads /\ [][NextSerialize]_vars

(* ------------------- properties of the event processor ---------------- *)
\* invocation t is executing the body of process for record id `id`
InBody(t, id) == tk[t].pc # "idle" /\ tk[t].rec.id = id

RecordIds == {r.id : r \in RecordInputs}

InsightCount(k) == Cardinality({row \in insights : row.pr = k})

\* C1: when process is invoked for a record id while an earlier invocation for
\* that id is in flight, the second call returns at the dedupe check: it does
\* not enter the body (the earlier invocation stays the only one running it)
\* and has no side effect - no insight insert, no delta handed, no RetryState
\* change, the lock entry untouched.
C1_SecondCallSkipped ==
    [][/\ \A t \in Tasks :
            (tk[t].pc = "idle" /\ tk'[t].pc # "idle")
               => ~\E u \in Tasks : InBody(u, tk'[t].rec.id)
       /\ (last' = "skipped" /\ last # "skipped")
            => UNCHANGED <<insights, handed, FAILED_INSIGHTS_RETRY,
                           PROCESSING_EVENTS, tk, log>>]_vars

\* C1 witness: a call was skipped while the only invocation in flight waits
\* for its select of existing insights
C1_Witness ==
    /\ last = "skipped"
    /\ \E u \in Tasks : tk[u].pc = "select" /\ tk[u].rec.id \in PROCESSING_EVENTS
    /\ \A u \in Tasks : tk[u].pc \in {"idle", "select"}

\* C2: a record id is in PROCESSING_EVENTS exactly while one invocation for it
\* executes its body; it is released when that invocation ends (success,
\* failed enrichment or exception), and a skipped call leaves the entry of the
\* in-flight invocation in place.
C2_LockHeldByOneInvocation ==
    \A id \in RecordIds :
        Cardinality({t \in Tasks : InBody(t, id)})
            = IF id \in PROCESSING_EVENTS THEN 1 ELSE 0

\* C2 witness: an invocation ended by raising and its lock entry is gone, and
\* enrichment failed for another one that ended too.
C2_Witness ==
    /\ last = "raised"
    /\ PROCESSING_EVENTS = {}
    /\ FAILED_INSIGHTS_RETRY # <<>>

\* C3: process calls for a pull request persist at most one insight for it,
\* and only when none existed: a step never adds an insight for a pull request
\* that already has one.
C3_AtMostOneInsight ==
    [][\A k \in PRKeys :
          InsightCount(k)' > InsightCount(k)
             => InsightCount(k) = 0 /\ InsightCount(k)' = 1]_vars

\* C3 witness: a call for a pull request found the insight an earlier call
\* persisted and goes on without enrichment
C3_Witness ==
    \E t \in Tasks :
        /\ tk[t].pc = "broadcast"
        /\ tk[t].rec.kind = "pr"
        /\ ~tk[t].success
        /\ HasInsight(tk[t].rec.pr)

\* C5: when a call for a pull request with file-change data and no insight
\* has used up its three AI attempts, each answered with text that does not
\* parse, and ends, a heuristic insight with the risk level of the magnitude
\* thresholds is persisted for that pull request.
C5_HeuristicAfterAIExhausted ==
    \A t \in Tasks :
        ( /\ tk[t].pc = "finally"
          /\ tk[t].rec.kind = "pr"
          /\ tk[t].rec.files > 0
          /\ tk[t].attempt = DefaultMaxRetries - 1
          /\ tk[t].ai_json = "None"
          /\ ~tk[t].success
          /\ ~tk[t].raising )
        => \E row \in insights :
              /\ row.pr = tk[t].rec.pr
              /\ row.risk_level = FallbackRisk(tk[t].rec)

\* C6: a call for a pull-request record that passed the dedupe check and ends
\* without raising (its enrichment succeeded, was not needed, or failed) has
\* handed a state delta for it to the Broadcast Fan-out.
C6_BroadcastAlwaysOccurs ==
    \A t \in Tasks :
        (tk[t].pc = "finally" /\ tk[t].rec.kind = "pr" /\ ~tk[t].raising)
           => [pr |-> tk[t].rec.pr, by |-> tk[t].rec.id] \in handed

(* ---------------------- properties of the retry sweep ----------------- *)
\* the sweep is about to visit the entry at sw.idx
SweepVisits ==
    /\ running = Sweep
    /\ tk[Sweep].pc = "sw_next"
    /\ Len(FAILED_INSIGHTS_RETRY) = sw.size
    /\ sw.idx <= Len(FAILED_INSIGHTS_RETRY)

\* C9: an entry whose enrichment has failed 5 times or more is not retried by
\* the sweep: visiting it logs "giving up", marks it completed and goes on to
\* the next entry without raising; the sweep starts an enrichment only for an
\* entry below the cap; and the end of the sweep deletes every completed key
\* from FAILED_INSIGHTS_RETRY.
C9_RetryCap ==
    /\ [][(SweepVisits /\ FAILED_INSIGHTS_RETRY[sw.idx].attempts >= RetryCap)
            => /\ tk'[Sweep].pc = "sw_next"
               /\ sw'.idx = sw.idx + 1
               /\ sw'.completed =
                     Append(sw.completed, FAILED_INSIGHTS_RETRY[sw.idx].key)
               /\ <<"giving up", FAILED_INSIGHTS_RETRY[sw.idx].key>> \in log'
               /\ UNCHANGED <<FAILED_INSIGHTS_RETRY, insights>>]_vars
    /\ [][(tk[Sweep].pc = "sw_next"
             /\ tk'[Sweep].pc \in {"ai_attempt", "fallback"})
            => FAILED_INSIGHTS_RETRY[sw.idx].attempts < RetryCap]_vars
    /\ [][(tk[Sweep].pc = "sw_cleanup" /\ tk'[Sweep].pc = "idle")
            => \A k \in SeqRange(sw.completed) :
                  \A i \in DOMAIN FAILED_INSIGHTS_RETRY' :
                      FAILED_INSIGHTS_RETRY'[i].key # k]_vars

\* C9 witness: a sweep gave up on a pull request that had reached the cap and
\* evicted it; no insight was written for it
C9_Witness ==
    \E k \in PRKeys :
        /\ <<"giving up", k>> \in log
        /\ k \notin RetryKeys
        /\ ~HasInsight(k)
        /\ tk[Sweep].pc = "idle"

(* -------------------- properties of the fan-out ----------------------- *)
\* how often socket s occurs in the sequence q
RECURSIVE Occurrences(_, _)
Occurrences(q, s) ==
    IF q = <<>> THEN 0
    ELSE (IF Head(q) = s THEN 1 ELSE 0) + Occurrences(Tail(q), s)

\* broadcast b has returned, and no other coroutine changed the active list
\* while it was suspended
Undisturbed(b) == bc[b].ended /\ ~bc[b].mutated

\* C7: when a broadcast has returned, every subscriber that was in the active
\* list and whose send did not raise was sent the message exactly once, and
\* every subscriber was tried exactly once, wherever the failing ones stand
\* in the list (for a broadcast during which no endpoint changed the list).
C7_BroadcastIsolation ==
    \A b \in Broadcasters :
        Undisturbed(b) =>
            \A s \in SeqRange(bc[b].start) :
                /\ Occurrences(bc[b].got, s) + Occurrences(bc[b].disconnected, s) = 1
                /\ s \notin SeqRange(bc[b].disconnected)
                      => Occurrences(bc[b].got, s) = 1

\* C7 witness: of three subscribers the send to the first one raised, and the
\* two behind it received the message
C7_Witness ==
    \E b \in Broadcasters :
        /\ Undisturbed(b)
        /\ Len(bc[b].start) = 3
        /\ bc[b].disconnected = <<bc[b].start[1]>>
        /\ bc[b].got = <<bc[b].start[2], bc[b].start[3]>>

\* C8: when a broadcast returns, the active list is the list it started with
\* without the subscribers whose send raised, and with every other one (for a
\* broadcast during which no endpoint changed the list).
C8_ActiveSetAfterBroadcast ==
    \A b \in Broadcasters :
        Undisturbed(b) =>
            LET Kept(s) == s \notin SeqRange(bc[b].disconnected)
            IN  bc[b].after = SelectSeq(bc[b].start, Kept)

\* C8 witness: a broadcast to three subscribers removed two and kept one
C8_Witness ==
    \E b \in Broadcasters :
        /\ Undisturbed(b)
        /\ Len(bc[b].start) = 3
        /\ Len(bc[b].disconnected) = 2
        /\ Len(bc[b].after) = 1
        /\ active_connections = bc[b].after

(* ---------------- properties of the enrichment engine --------------- *)
\* positions inside _generate_ai_insight_for_pr_with_retry and
\* _generate_fallback_insight
EnginePcs == {"ai_attempt", "insert", "backoff", "fallback", "fb_insert"}

\* C18: a call of the enrichment engine that returns True has persisted
\* exactly one insight row, for its pull request, and a call that returns
\* False has persisted none: the step that returns True is the one insert of
\* the call, and no other step of the call changes the insights table.
C18_SuccessIffOneRow ==
    [][\A t \in Coroutines :
         (tk[t].pc \in EnginePcs /\ tk'[t] # tk[t])
           => IF tk'[t].pc = ReturnPc(t) /\ tk'[t].success
              THEN \E row \in insights' \ insights :
                     /\ insights' = insights \cup {row}
                     /\ row.pr = tk[t].rec.pr
              ELSE insights' = insights]_vars

\* an AI-derived call returned True on its second attempt, and the pull
\* request has one insight row
C18_Witness ==
    \E t \in Tasks :
        /\ tk[t].pc = "after_enrich"
        /\ tk[t].success
        /\ tk[t].rec.files > 0
        /\ tk[t].attempt = 1
        /\ InsightCount(tk[t].rec.pr) = 1

\* C19: every persisted insight row has risk_level low, medium or high,
\* whatever the AI collaborator returned and on the heuristic path.
C19_RiskLevelValid ==
    \A row \in insights : row.risk_level \in RiskLevels

\* an AI-derived row with risk_level low (the collaborator named an unknown
\* level or none) and a heuristic row, of a pull request without file data
C19_Witness ==
    \E a \in insights, h \in insights :
        /\ a.pr # h.pr
        /\ a.risk_level = "low"
        /\ h.risk_level = FallbackRisk(PullRequestRecord(h.pr, 0, 60, 2, TRUE))
        /\ last = "raised"

(* ------------------- properties of the retry sweep -------------------- *)
\* C20: a process call that registers a RetryState entry while the retry
\* sweep is suspended in an enrichment attempt does not make the sweep fail:
\* the sweep ends only through its cleanup of the completed entries.
C20_SweepSurvivesRegistration ==
    [][(tk[Sweep].pc # "idle" /\ tk'[Sweep].pc = "idle")
         => tk[Sweep].pc = "sw_cleanup"]_vars

(* --------------------- properties of the poller ----------------------- *)
\* C4: a row whose processing by the listener raised is eventually handed to
\* the processor by the poller and reconciled, for every row of every table.
C4_AtLeastOnceDelivery ==
    \A kind \in Kinds : \A i \in 1..MaxRows :
        (i <= Len(tables[kind]) /\ tables[kind][i] = "failed")
           ~> (i <= Len(tables[kind]) /\ tables[kind][i] = "reconciled")

\* the poller is about to hand row i of the table `kind` to the processor
HandingOver(kind, i) ==
    /\ poller.pc = "process"
    /\ KindOrder[poller.k] = kind
    /\ Head(poller.rows) = i

\* C11: in a poller cycle a process call that raises for one discovered row
\* does not abort the cycle: whatever the call's outcome, the scan of a table
\* hands its discovered rows over one after the other, leaves the table only
\* after the last of them, and then goes on with the next table.
C11_CycleSurvivesRowFailure ==
    [][(poller.pc = "process" /\ poller' # poller)
         => LET kind == KindOrder[poller.k]
                row == Head(poller.rows)
            IN  /\ \E out \in {"returned", "raised"} :
                     tables'[kind][row] = AfterPoll(tables[kind][row], out)
                /\ IF Len(poller.rows) > 1
                   THEN poller' = [poller EXCEPT !.rows = Tail(@)]
                   ELSE poller' = NextTable]_vars

\* the process call of the newest row of a scan raised, and the scan is
\* handing over the row discovered with it
C11_Witness ==
    /\ poller.pc = "process"
    /\ Len(poller.rows) = 1
    /\ \E i \in 1..MaxRows :
         /\ i > Head(poller.rows)
         /\ i <= Len(tables[KindOrder[poller.k]])
         /\ tables[KindOrder[poller.k]][i] = "handed"

\* C12: a row whose processing raised in a poller cycle, and which is still
\* unsettled, is handed to the processor again by a later cycle.
C12_RaisedRowRetried ==
    \A kind \in Kinds : \A i \in 1..MaxRows :
        (i <= Len(tables[kind]) /\ tables[kind][i] = "handed")
           ~> \/ HandingOver(kind, i)
              \/ i <= Len(tables[kind]) /\ tables[kind][i] = "reconciled"

(* ---------------- properties of the poller's lifecycle --------------- *)
\* C13: after the poller was stopped and started again, every row that was
\* written before the restart and whose processing had failed is discovered
\* and handed to the processor.
C13_ResumableAcrossRestart ==
    \A kind \in Kinds : \A i \in 1..MaxRows :
        (/\ restart.again
         /\ i <= restart.rows[kind]
         /\ tables[kind][i] = "failed")
           ~> \/ HandingOver(kind, i)
              \/ i <= Len(tables[kind]) /\ tables[kind][i] # "failed"

\* C17: once stop_poller() was called the poller starts no new scan cycle,
\* from its sleep or from its error backoff, and it eventually terminates.
C17_PollerStops ==
    /\ [][(~poller_running /\ ~poller_running' /\ poller' # poller)
            => ~(poller'.pc = "select" /\ poller'.k = 1)]_vars
    /\ (~poller_running ~> poller.pc = "done")

\* the poller was stopped during a cycle that had rows to hand over, and has
\* shut down from the sleep that followed, the flag still set
C17_Witness ==
    /\ ~poller_running
    /\ poller.pc = "done"
    /\ \E kind \in Kinds : \E i \in 1..MaxRows :
         i <= Len(tables[kind]) /\ tables[kind][i] \in {"handed", "reconciled"}

(* -------------------- properties of the listener ---------------------- *)
AllChannels == listener.conn = "open" /\ listener.subs = Kinds

\* C14: an exception raised while a notification is processed is swallowed
\* by the handler: the step leaves the listener task where it was, with its
\* connection and all its subscriptions, so that later notifications are
\* processed.
C14_HandlerSwallows ==
    [][\A kind \in Kinds :
         (/\ Len(tables'[kind]) = Len(tables[kind]) + 1
          /\ tables'[kind][Len(tables'[kind])] = "failed")
           => /\ listener' = listener
              /\ listener_running' = listener_running
              /\ kind \in listener'.subs]_vars

\* a notification was processed after the processing of an earlier one of
\* the same channel raised, the listener idle and subscribed throughout
C14_Witness ==
    /\ listener.pc = "idle"
    /\ AllChannels
    /\ \E kind \in Kinds :
         /\ Len(tables[kind]) = 2
         /\ tables[kind][1] = "failed"
         /\ tables[kind][2] = "settled"

\* C15: whenever the listener's connection is lost while no stop has been
\* signalled, the listener eventually holds a connection subscribed to every
\* channel again (or a stop is signalled first).
C15_Reconnects ==
    (listener.conn = "lost" /\ listener_running)
       ~> (AllChannels \/ ~listener_running)

\* C16: once stop_listener() was called, a listener that is in its idle wait
\* or in the reconnect backoff, or whose connection block ends in an error,
\* neither connects, subscribes nor starts the backoff sleep again, and the
\* listener eventually terminates with no subscription and no connection.
C16_ListenerStops ==
    /\ [][~listener_running
            => /\ (listener.pc \in {"idle", "remove", "backoff", "done"}
                    => /\ listener'.pc \notin {"connect", "subscribe"}
                       /\ listener'.subs \subseteq listener.subs)
               /\ (listener.pc # "backoff" => listener'.pc # "backoff")]_vars
    /\ (~listener_running
          ~> (listener.pc = "done" /\ listener.subs = {}
                /\ listener.conn = "none"))

\* the listener was stopped in its idle wait, has left it and has removed two
\* of its three subscriptions
C16_Witness ==
    /\ ~listener_running
    /\ listener.pc = "remove"
    /\ listener.conn = "open"
    /\ listener.n = Len(KindOrder)
    /\ listener.subs = {KindOrder[Len(KindOrder)]}

(* ----------------- further properties of the fan-out ------------------ *)
\* C21: disconnect is idempotent: for a subscriber that is not in the active
\* list it leaves the list unchanged, a second call changes nothing the first
\* did not, and the endpoint's disconnect of a subscriber a broadcast already
\* removed changes nothing.
C21_DisconnectIdempotent ==
    /\ [](\A s \in Sockets :
            LET once == disconnect(active_connections, s)
            IN  /\ disconnect(once, s) = once
                /\ s \notin SeqRange(active_connections)
                     => once = active_connections)
    /\ [][\A s \in Sockets :
            (/\ ws[s] = "open"
             /\ ws'[s] = "closed"
             /\ s \notin SeqRange(active_connections))
              => active_connections' = active_connections]_vars

\* a subscriber whose send failed was removed at the end of the broadcast,
\* and its endpoint has called disconnect as well, others still connected
C21_Witness ==
    \E b \in Broadcasters : \E s \in Sockets :
        /\ bc[b].ended
        /\ s \in SeqRange(bc[b].disconnected)
        /\ ws[s] = "closed"
        /\ s \notin SeqRange(active_connections)
        /\ active_connections # <<>>

(* --------------- further properties of the event processor ------------ *)
\* C22: processing an insight record hands nothing to the fan-out and changes
\* no persisted state: the call only adds its ProcessingLock entry, and its
\* one further step returns normally and releases the entry.
C22_InsightCallFrame ==
    [][\A t \in Tasks :
         /\ (tk[t].pc = "idle" /\ tk'[t].pc # "idle"
                /\ tk'[t].rec.kind = "insight")
              => /\ tk'[t].pc = "finally"
                 /\ PROCESSING_EVENTS' = PROCESSING_EVENTS \cup {tk'[t].rec.id}
                 /\ UNCHANGED <<handed, insights, FAILED_INSIGHTS_RETRY,
                                wsVars>>
         /\ (tk[t].pc # "idle" /\ tk[t].rec.kind = "insight"
                /\ tk'[t] # tk[t])
              => /\ tk'[t].pc = "idle"
                 /\ last' = "returned"
                 /\ PROCESSING_EVENTS' = PROCESSING_EVENTS \ {tk[t].rec.id}
                 /\ UNCHANGED <<handed, insights, FAILED_INSIGHTS_RETRY,
                                wsVars>>]_vars

\* an insight record is being processed while a pull-request call is suspended
C22_Witness ==
    \E t \in Tasks, u \in Tasks :
        /\ tk[t].pc = "finally"
        /\ tk[t].rec.kind = "insight"
        /\ tk[t].rec.id \in PROCESSING_EVENTS
        /\ tk[u].rec.kind = "pr"
        /\ tk[u].pc = "insert"

\* C23: a failure of the AI collaborator makes the attempt count as failed
\* and never leaves the engine or the process call as an exception: the
\* attempt is followed by the backoff or by the engine returning False, and
\* a call whose engine returned False ends by returning normally.
C23_AIFailureRecoverable ==
    [][\A t \in Tasks :
         /\ (tk[t].pc = "ai_attempt" /\ tk'[t] # tk[t])
              => /\ tk'[t].pc \in {"insert", "backoff", "after_enrich"}
                 /\ ~tk'[t].raising
                 /\ tk'[t].pc = "after_enrich" => ~tk'[t].success
         /\ (tk[t].pc = "after_enrich" /\ ~tk[t].success /\ tk'[t] # tk[t])
              => tk'[t].pc = "finally" /\ ~tk'[t].raising
         /\ (tk[t].pc = "finally" /\ ~tk[t].raising /\ tk'[t] # tk[t])
              => last' = "returned"]_vars

\* a call whose three AI attempts all failed is about to return normally,
\* its pull request registered for retry and without an insight
C23_Witness ==
    \E t \in Tasks :
        /\ tk[t].pc = "finally"
        /\ ~tk[t].raising
        /\ tk[t].rec.files > 0
        /\ tk[t].attempt = DefaultMaxRetries - 1
        /\ ~tk[t].success
        /\ tk[t].rec.pr \in RetryKeys
        /\ ~HasInsight(tk[t].rec.pr)

\* C24: a pull-request record is routed to the enrichment engine (AI-derived
\* or heuristic path) exactly when no insight exists for its pull request and
\* the record carries file-change data.
C24_RoutedIffNewWithFiles ==
    [][\A t \in Tasks :
         (tk[t].pc = "select" /\ tk'[t].pc \notin {"select", "except"})
           => (tk'[t].pc \in EnginePcs
                 <=> (~HasInsight(tk[t].rec.pr) /\ tk[t].rec.files > 0))]_vars

\* C25: when a process call has derived the event state of its record, its
\* next step hands the state delta of that record (repo_id, pr_number, state)
\* to the Broadcast Fan-out.
C25_DeltaHandedToFanout ==
    [][\A t \in Tasks :
         (tk[t].pc = "broadcast" /\ tk'[t] # tk[t])
           => /\ [pr |-> tk[t].rec.pr, by |-> tk[t].rec.id] \in handed'
              /\ tk'[t].pc = "finally"]_vars

(* ---------------- properties of the PR event state derivation --------- *)
\* the state of the last entry of the record's history, "None" without one
LastHistoryState(r) ==
    IF r.history.entries = <<>> THEN "None"
    ELSE r.history.entries[Len(r.history.entries)]

\* the result derived from the flags in the priority merged, closed, draft,
\* opened
FromFlags(r) ==
    IF r.merged THEN "merged"
    ELSE IF r.state = "closed" THEN "closed"
    ELSE IF r.is_draft THEN "draft"
    ELSE "opened"

\* C26: the derived PR event state is the state of the last history entry
\* when that state is one of building, buildPassed, buildFailed, approved,
\* rejected, and otherwise the first of merged, closed, draft, opened that the
\* record's flags give, for every history, state, merged and is_draft.
C26_PrEventStateDerivation ==
    pr_event_state # "unset" =>
        pr_event_state =
            IF LastHistoryState(pr_record) \in WorkflowStates
            THEN LastHistoryState(pr_record)
            ELSE FromFlags(pr_record)

\* the same for the records whose history is a list and whose state is one
\* of open, closed or missing
PrEventStateOnLists ==
    (/\ pr_event_state # "unset"
     /\ pr_record.history.form # "json"
     /\ pr_record.state # "None") =>
        pr_event_state =
            IF LastHistoryState(pr_record) \in WorkflowStates
            THEN LastHistoryState(pr_record)
            ELSE FromFlags(pr_record)

\* C27: one enrich call makes at most max_retries (3 by default) calls of the
\* AI collaborator, returns at the first attempt that succeeds, sleeps 1 s
\* and then 2 s (2 ** attempt) only when another attempt follows, and returns
\* False only after the attempt numbered max_retries - 1 has failed.
C27_BoundedAttemptsWithBackoff ==
    [][\A t \in Coroutines :
         LET c == tk[t]
             d == tk'[t]
         IN  /\ c.pc \in {"ai_attempt", "insert", "backoff"}
                  => c.attempt < c.max_retries
             /\ (c.pc = "insert" /\ d.pc # "insert" /\ d.success)
                  => (d.pc = ReturnPc(t) /\ d.attempt = c.attempt)
             /\ (c.pc \in {"ai_attempt", "insert"} /\ d.pc = "backoff")
                  => /\ c.attempt < c.max_retries - 1
                     /\ d.sleep = 2 ^ c.attempt
                     /\ d.sleep = IF c.attempt = 0 THEN 1 ELSE 2
             /\ (c.pc = "backoff" /\ d.pc # "backoff")
                  => (d.pc = "ai_attempt" /\ d.attempt = c.attempt + 1)
             /\ (c.pc \in {"ai_attempt", "insert"} /\ d.pc = ReturnPc(t)
                 /\ ~d.success)
                  => (c.attempt = c.max_retries - 1 /\ d.sleep = 0)]_vars

\* the third attempt of a call with the default max_retries has failed after
\* two backoff sleeps and the engine has returned False
C27_Witness ==
    \E t \in Tasks :
        /\ tk[t].pc = "after_enrich"
        /\ tk[t].max_retries = DefaultMaxRetries
        /\ tk[t].attempt = DefaultMaxRetries - 1
        /\ ~tk[t].success
        /\ tk[t].rec.files > 0

(* ---------------- properties of the payload reduction ----------------- *)
RECURSIVE PayloadSize(_)
\* characters of patch text in a files_changed list
PayloadSize(files) ==
    IF files = <<>> THEN 0
    ELSE Head(files).patch + PayloadSize(Tail(files))

\* the number of entries is the same in every attempt, and the second retry
\* keeps no diff body
EntriesKeptBodyDropped ==
    \A k \in 2..Len(sent) :
        /\ Len(sent[k]) = Len(sent[k - 1])
        /\ k = 3 => \A i \in DOMAIN sent[k] : sent[k][i].body = 0

\* C28: the payload of attempt k > 0 is no larger than the payload of
\* attempt k - 1, the second retry keeps no diff body of any file entry, and
\* the number of file entries is unchanged.
C28_PayloadNeverGrows ==
    \A k \in 2..Len(sent) :
        /\ PayloadSize(sent[k]) <= PayloadSize(sent[k - 1])
        /\ \A i \in DOMAIN sent[k] : sent[k][i].patch <= sent[k - 1][i].patch
        /\ Len(sent[k]) = Len(sent[k - 1])
        /\ k = 3 => \A i \in DOMAIN sent[k] : sent[k][i].body = 0

(* ---------------- properties of the heuristic risk level -------------- *)
\* C29: the heuristic risk_level is high when additions + deletions > 200 or
\* changed_files > 10, otherwise medium when additions + deletions > 50 or
\* changed_files > 3, otherwise low; 200 lines with 10 files is not high and
\* 50 lines with 3 files is low.
C29_RiskLevelThresholds ==
    risk_level # "unset" =>
        LET total == metadata.additions + metadata.deletions
            files == metadata.changed_files
        IN  /\ risk_level =
                 IF total > 200 \/ files > 10 THEN "high"
                 ELSE IF total > 50 \/ files > 3 THEN "medium"
                 ELSE "low"
            /\ (total <= 200 /\ files <= 10) => risk_level # "high"
            /\ (total <= 50 /\ files <= 3) => risk_level = "low"

\* a record exactly on the upper thresholds got medium
C29_Witness ==
    /\ metadata.additions + metadata.deletions = 200
    /\ metadata.changed_files = 10
    /\ risk_level = "medium"

(* ---------------- liveness of the retry state ------------------------- *)
\* C30: every entry registered in FAILED_INSIGHTS_RETRY is eventually
\* evicted while the service runs; no entry stays registered forever.
C30_EveryEntryEvicted ==
    \A k \in PRKeys : (k \in RetryKeys) ~> (k \notin RetryKeys)

(* ---------------- further properties of the retry sweep --------------- *)
\* the entry the sweep's iteration stands at
SweepEntry == FAILED_INSIGHTS_RETRY[sw.idx]

\* the sweep is at the head of an iteration over an unchanged map
AtEntry ==
    /\ tk[Sweep].pc = "sw_next"
    /\ Len(FAILED_INSIGHTS_RETRY) = sw.size
    /\ sw.idx <= Len(FAILED_INSIGHTS_RETRY)

\* C31: the sweep starts no enrichment attempt for an entry whose last
\* attempt is less than the cooldown (300 s) ago and leaves its attempts and
\* last_attempt as they are; a failed sweep retry sets the entry's
\* last_attempt to the current time, so the entry is within its cooldown
\* again.
C31_CooldownRespected ==
    [][/\ (AtEntry /\ now - SweepEntry.last_attempt < 300)
          => /\ tk'[Sweep].pc = "sw_next"
             /\ FAILED_INSIGHTS_RETRY' = FAILED_INSIGHTS_RETRY
       /\ (tk[Sweep].pc = "sw_after" /\ ~tk[Sweep].success)
          => /\ FAILED_INSIGHTS_RETRY'[sw.idx].last_attempt = now
             /\ FAILED_INSIGHTS_RETRY'[sw.idx].attempts = SweepEntry.attempts + 1
             /\ now' - FAILED_INSIGHTS_RETRY'[sw.idx].last_attempt < 300
             /\ tk'[Sweep].pc = "sw_next"]_vars

\* the sweep has passed over the first entry, registered less than the
\* cooldown ago, without retrying it
C31_Witness ==
    /\ tk[Sweep].pc = "sw_next"
    /\ sw.idx = 2
    /\ sw.completed = <<>>
    /\ Len(FAILED_INSIGHTS_RETRY) = sw.size
    /\ FAILED_INSIGHTS_RETRY[1].attempts = 1
    /\ now - FAILED_INSIGHTS_RETRY[1].last_attempt < Cooldown

\* C32: the sweep retries an entry with attempts >= 3 through the heuristic
\* path, without a call of the AI collaborator, and an entry with
\* attempts < 3 through the AI path with one attempt and no backoff.
C32_SweepPathByAttempts ==
    [][/\ (AtEntry /\ tk'[Sweep].pc \notin {"sw_next", "idle"})
          => /\ tk'[Sweep].pc =
                  IF SweepEntry.attempts >= 3 THEN "fallback"
                  ELSE "ai_attempt"
             /\ tk'[Sweep].attempt = 0
             /\ tk'[Sweep].rec = SweepEntry.pr_record
       /\ tk[Sweep].pc \in {"fallback", "fb_insert"}
          => tk'[Sweep].pc \in {"fallback", "fb_insert", "sw_after"}
       /\ tk[Sweep].pc \in {"ai_attempt", "insert"}
          => /\ tk[Sweep].attempt = 0
             /\ tk'[Sweep].pc \in {"ai_attempt", "insert", "sw_after"}
             /\ tk'[Sweep].attempt = 0]_vars

\* the sweep is in the heuristic path for an entry with three attempts
C32_Witness ==
    /\ tk[Sweep].pc = "fallback"
    /\ Len(FAILED_INSIGHTS_RETRY) = sw.size
    /\ SweepEntry.attempts = 3

(* ---------------- further properties of the poller -------------------- *)
\* C33: in every cycle the rows of a table that the poller hands to the
\* processor are at most the batch size (5) and are handed over oldest first.
C33_OldestFirstBoundedBatch ==
    poller.pc = "process" =>
        /\ Len(poller.rows) <= 5
        /\ \A i, j \in DOMAIN poller.rows :
              i < j => poller.rows[i] < poller.rows[j]

\* C34: a row whose process call completed without error is settled: it is
\* not handed to the processor again while it is unchanged; and no row is
\* ever deleted.
C34_SettledRowsLeftAlone ==
    [][/\ \A kind \in Kinds : Len(tables'[kind]) >= Len(tables[kind])
       /\ (poller.pc = "process" /\ poller' # poller)
          => tables[KindOrder[poller.k]][Head(poller.rows)]
                \notin {"settled", "reconciled"}]_vars

(* ---------------- notification intake --------------------------------- *)
\* a notification is taken and the processing of its record begins
StartProcessing ==
    \E t \in Tasks, r \in RecordInputs :
        /\ Call(t, r, MaxFailures)
        /\ tk'[t].pc # "idle"

C36_SendsStartedTogether ==
    \A b \in Broadcasters :
        bc[b].pc = "send" =>
            \A s \in SeqRange(bc[b].start) :
                \/ s = bc[b].cur
                \/ s \in SeqRange(bc[b].got)
                \/ s \in SeqRange(bc[b].disconnected)

(* ---------------- properties of the payload serialization ------------- *)
RECURSIVE Holds(_, _)
\* the payload holds a value of the given type, at any depth
Holds(v, type) ==
    \/ v.type = type
    \/ \E i \in DOMAIN v.items : Holds(v.items[i], type)

\* a payload whose only values of no JSON type are UUIDs is serialized,
\* however deep they are nested
UuidsNormalized ==
    (message # "unset" /\ ~Holds(payload, "datetime")) => message = "message"

\* C37: every UUID and every timestamp of a payload, at any depth in its
\* dicts and lists, is turned into a string before json.dumps, so that the
\* serialization of a payload holding such values does not fail.
C37_PayloadSerializes ==
    message # "unset" => message = "message"

\* C38: when a broadcast has returned, every subscriber that was in the
\* active list from its start to its end and whose send did not raise was
\* sent the message exactly once, whatever connected or disconnected while
\* the broadcast was suspended in a send.
C38_StayingSubscriberGetsDelta ==
    \A b \in Broadcasters :
        bc[b].ended =>
            \A s \in SeqRange(bc[b].start) \cap SeqRange(bc[b].after) :
                s \notin SeqRange(bc[b].disconnected)
                    => Occurrences(bc[b].got, s) = 1

(* ---------------- insights under process calls and sweeps ------------- *)
\* C39: whatever the interleaving of process calls and retry sweeps, at most
\* one insight is persisted for a pull request.
C39_OneInsightPerPullRequest ==
    \A k \in PRKeys : InsightCount(k) <= 1

\* C40: in every reachable state the attempts count of each
\* FAILED_INSIGHTS_RETRY entry is at least 1 and at most the hard cap 5.
C40_AttemptsWithinCap ==
    \A i \in DOMAIN FAILED_INSIGHTS_RETRY :
        /\ FAILED_INSIGHTS_RETRY[i].attempts >= 1
        /\ FAILED_INSIGHTS_RETRY[i].attempts <= 5

\* the attempts count of an entry is never below 1
AttemptsAtLeastOne ==
    \A i \in DOMAIN FAILED_INSIGHTS_RETRY : FAILED_INSIGHTS_RETRY[i].attempts >= 1

(* ------------------ properties of the status derivation --------------- *)
\* the priority table, highest first
PriorityOrder ==
    <<"merged", "closed", "mergeFailed", "approved", "rejected",
      "buildPassed", "buildFailed", "building", "opened">>

\* the status value that stands for each state of the table
Matches(state, r) ==
    CASE state = "merged" -> Get(r.status_merge) = "merged"
      [] state = "closed" -> Get(r.status_merge) = "closed"
      [] state = "mergeFailed" -> Get(r.status_merge) = "failed"
      [] state = "approved" -> Get(r.status_approval) = "approved"
      [] state = "rejected" -> Get(r.status_approval) = "rejected"
      [] state = "buildPassed" -> Get(r.status_build) = "buildPassed"
      [] state = "buildFailed" -> Get(r.status_build) = "buildFailed"
      [] state = "building" -> Get(r.status_build) = "building"
      [] state = "opened" -> Get(r.status_pr) \in {"opened", "pending"}
      [] OTHER -> FALSE

FirstMatch(r) ==
    LET hits == {i \in DOMAIN PriorityOrder : Matches(PriorityOrder[i], r)}
    IN  IF hits = {} THEN "updated"
        ELSE PriorityOrder[CHOOSE i \in hits : \A j \in hits : i <= j]

\* C10: for every combination of the four status fields the derived event
\* state is the first state of the priority table that matches, else updated;
\* merged wins over a failed build, and a build in progress with everything
\* else pending derives building.
C10_PipelinePriority ==
    event_state # "unset" =>
        /\ event_state = FirstMatch(pipeline_record)
        /\ (pipeline_record.status_merge = "merged"
            /\ pipeline_record.status_build = "buildFailed")
              => event_state = "merged"
        /\ (pipeline_record.status_build = "building"
            /\ pipeline_record.status_pr = "pending"
            /\ pipeline_record.status_approval = "pending"
            /\ pipeline_record.status_merge = "pending")
              => event_state = "building"

\* C10 witness: a merged pull request whose build failed and whose review
\* approved it derived merged
C10_Witness ==
    /\ event_state = "merged"
    /\ pipeline_record.status_build = "buildFailed"
    /\ pipeline_record.status_approval = "approved"

====
